---- MODULE Spec2Model ----
(***************************************************************************)
(* TitanCompute coordinator: the in-memory agent registry with its         *)
(* heartbeat / circuit-breaker state machine (pkg/registry), the MCDA      *)
(* scheduler (pkg/scheduler) and the RequestInference / RegisterAgent      *)
(* handlers of the control-plane surface (pkg/server).                     *)
(*                                                                         *)
(* Time is counted in whole seconds since coordinator start.  float64      *)
(* quantities (cpu percent, rtt, scores) are treated as exact rationals.   *)
(* AgentInfo.RegisteredAt and AgentInfo.LastFailureTime are assigned by    *)
(* Register and RecordFailure and read nowhere; they are not carried.      *)
(* Model names are sequences of one-character strings so that len() and    *)
(* suffix slicing are computed as the Go code computes them.               *)
(***************************************************************************)
EXTENDS Integers, Sequences, FiniteSets, TLC

(***************************************************************************)
(* Bounds of the exploration.                                              *)
(***************************************************************************)
\* number of cleanup-ticker periods the clock is allowed to run through
MaxTicks == 2
\* caps on failure_count and success_count (int32 in the code)
MaxFailures == 4
MaxSuccesses == 3
\* number of uuid.New() calls available to one behaviour
MaxUUID == 3
\* number of heartbeats an agent sends on one ReportHealth stream
MaxHeartbeats == 3
\* longest stem of a model name handed to the VRAM estimator
MaxStem == 12
\* number of inference requests served step by step in one behaviour
MaxRequests == 2

(***************************************************************************)
(* Program constants.                                                      *)
(***************************************************************************)
FailureThreshold == 3
RecoveryTimeout == 30
SuccessThreshold == 2
HalfOpenTimeout == 10
CleanupInterval == 60
HeartbeatTimeout == 30
TokenTTL == 60
TokenSweepDelay == 60

\* the zero value of time.Time: earlier than every clock reading
ZeroTime == -1

StatusHealthy == "healthy"
StatusDegraded == "degraded"
StatusHalfOpen == "half_open"
StatusOffline == "offline"

(***************************************************************************)
(* Inputs the environment may send.                                        *)
(***************************************************************************)
AgentIds == {"a1"}
\* the agents of the two-agent scheduling scenarios
AgentPair == {"a1", "a2"}

\* "llama3:7b" (9 characters) and "mistral-v2-7B" (13 characters)
ModelLlama == <<"l", "l", "a", "m", "a", "3", ":", "7", "b">>
ModelMistral == <<"m", "i", "s", "t", "r", "a", "l", "-", "v", "2", "-", "7", "B">>
Models == {ModelLlama, ModelMistral}

\* a map without entries: make(map[...]...), or a nil map that is only read
EmptyMap == [k \in {} |-> 0]

\* pb.AgentRegistration payloads (without the agent id)
RegSmall ==
    [Endpoint |-> "10.0.0.1:50052", TotalVramMb |-> 8192, TotalRamMb |-> 16384,
     MaxJobs |-> 2, SupportedModels |-> << >>, Capabilities |-> EmptyMap]
RegLarge ==
    [Endpoint |-> "10.0.0.2:50052", TotalVramMb |-> 32768, TotalRamMb |-> 65536,
     MaxJobs |-> 4, SupportedModels |-> <<ModelMistral>>,
     Capabilities |-> [gpu |-> "a100"]]
Registrations == {RegSmall, RegLarge}

\* pb.HealthUpdate payloads (without the agent id)
HbIdle ==
    [FreeVRAMMB |-> 7000, FreeRAMMB |-> 12000, RunningJobs |-> 1,
     QueuedJobs |-> 0, CPUPercent |-> 20, RTTMs |-> 5]
HbBusy ==
    [FreeVRAMMB |-> 3000, FreeRAMMB |-> 8000, RunningJobs |-> 2,
     QueuedJobs |-> 1, CPUPercent |-> 75, RTTMs |-> 40]
HbHot ==
    [FreeVRAMMB |-> 7000, FreeRAMMB |-> 2000, RunningJobs |-> 1,
     QueuedJobs |-> 3, CPUPercent |-> 95, RTTMs |-> 5]
Heartbeats == {HbIdle, HbBusy, HbHot}

\* a small card, and heartbeats at and beyond the edges of what a card can
\* report: little free VRAM, and more free VRAM and jobs than the agent has
RegTiny ==
    [Endpoint |-> "10.0.0.3:50052", TotalVramMb |-> 1024, TotalRamMb |-> 2048,
     MaxJobs |-> 1, SupportedModels |-> << >>, Capabilities |-> EmptyMap]
HbLow ==
    [FreeVRAMMB |-> 400, FreeRAMMB |-> 1000, RunningJobs |-> 0,
     QueuedJobs |-> 0, CPUPercent |-> 20, RTTMs |-> 5]
HbOver ==
    [FreeVRAMMB |-> 9000, FreeRAMMB |-> 1000, RunningJobs |-> 3,
     QueuedJobs |-> 0, CPUPercent |-> 50, RTTMs |-> 5]
HealthRegistrations == {RegSmall, RegTiny}
HealthHeartbeats == {HbIdle, HbHot, HbLow, HbOver}

\* a loaded agent far away: enough free VRAM for a 7B model on a large card,
\* three running jobs, 400 ms round trip
HbSlow ==
    [FreeVRAMMB |-> 6500, FreeRAMMB |-> 8000, RunningJobs |-> 3,
     QueuedJobs |-> 2, CPUPercent |-> 60, RTTMs |-> 400]
RankHeartbeats == {HbBusy, HbHot, HbSlow}

\* requests with missing fields, for the validation paths of the handlers
RegNoEndpoint == [RegSmall EXCEPT !.Endpoint = ""]
ApiAgentIds == {"a1", ""}
ApiRegistrations == {RegSmall, RegNoEndpoint}
ApiHeartbeats == {HbIdle}
ApiClientIds == {"c1", ""}
ApiModels == {ModelLlama, << >>}
ApiPrompts == {"hello", ""}

\* the amounts by which the clock moves between two events
ClockSteps == {30}

VARIABLES
    agents,       \* InMemoryRegistry.agents: agent id -> AgentInfo
    now,          \* the clock read by time.Now()
    nextTick,     \* when the cleanup ticker fires next
    perfHistory,  \* MCDAScheduler.perfHistory: agent id -> avg tokens/sec
    tokens,       \* CoordinatorServer.tokens: token id -> SessionToken
    sweeps,       \* wake-up times of the sleeping cleanupExpiredTokens goroutines
    uuid,         \* number of uuid.New() calls made so far
    resp,         \* what the last operation returned
    probes,       \* history: agent id -> number of RecordSuccess calls since a
                  \* cleanup tick half-opened the record, while no failure and
                  \* no half-open timeout has intervened
    replaced,     \* history: the status of the record that the last operation,
                  \* a RegisterAgent, replaced ("" when it replaced none)
    config,       \* CoordinatorServer.config: what config.Load returned
    stream,       \* the ReportHealth stream and the position of its handler
    threads,      \* the goroutines inside a call: goroutine -> position and locals
    mu            \* InMemoryRegistry.mu and MCDAScheduler.mu

\* the state of the calls in progress: no call of an operation that is taken
\* as one step touches it
fine == <<stream, threads, mu>>

vars == <<agents, now, nextTick, perfHistory, tokens, sweeps, uuid, resp, probes,
          replaced, config, stream, threads, mu>>

(***************************************************************************)
(* Registry (pkg/registry/registry.go).                                    *)
(***************************************************************************)

\* the AgentInfo literal built by CoordinatorServer.RegisterAgent; the fields
\* it does not name have Go's zero values
NewAgentInfo(id, req) ==
    [ID |-> id, Endpoint |-> req.Endpoint,
     TotalVRAMMB |-> req.TotalVramMb, TotalRAMMB |-> req.TotalRamMb,
     MaxJobs |-> req.MaxJobs, SupportedModels |-> req.SupportedModels,
     Capabilities |-> req.Capabilities,
     FreeVRAMMB |-> req.TotalVramMb, FreeRAMMB |-> req.TotalRamMb,
     RunningJobs |-> 0, QueuedJobs |-> 0, CPUPercent |-> 0, RTTMs |-> 0,
     LastHeartbeat |-> ZeroTime, Status |-> "",
     FailureCount |-> 0, NextRetryTime |-> ZeroTime, SuccessCount |-> 0]

\* r.agents[id] = rec
MapPut(m, id, rec) ==
    [k \in DOMAIN m \cup {id} |-> IF k = id THEN rec ELSE m[k]]

\* delete(r.agents, id) for every id of ids
MapDelete(m, ids) == [k \in DOMAIN m \ ids |-> m[k]]

\* Register keeping the circuit state of a record it finds under the same id
Register_KeepsCircuit(m, agent, t) ==
    MapPut(m, agent.ID,
           IF agent.ID \in DOMAIN m
           THEN [agent EXCEPT !.LastHeartbeat = t,
                              !.Status = m[agent.ID].Status,
                              !.FailureCount = m[agent.ID].FailureCount,
                              !.SuccessCount = m[agent.ID].SuccessCount]
           ELSE [agent EXCEPT !.LastHeartbeat = t, !.Status = StatusHealthy])

\* InMemoryRegistry.Register
Register(m, agent, t) ==
    MapPut(m, agent.ID,
           [agent EXCEPT !.LastHeartbeat = t, !.Status = StatusHealthy])

\* float64(total-free)/float64(total) > tenths/10, for total > 0
VramUtilAbove(agent, tenths) ==
    10 * (agent.TotalVRAMMB - agent.FreeVRAMMB) > tenths * agent.TotalVRAMMB

\* float64(total-free)/float64(total) < tenths/10, for total > 0
VramUtilBelow(agent, tenths) ==
    10 * (agent.TotalVRAMMB - agent.FreeVRAMMB) < tenths * agent.TotalVRAMMB

\* HealthStatus derived from the metrics alone, whatever the circuit state
HealthStatus_IgnoresCircuit(a) ==
    IF VramUtilAbove(a, 9) \/ a.CPUPercent > 90 \/ a.FreeVRAMMB < 512
    THEN StatusDegraded
    ELSE IF VramUtilBelow(a, 7) /\ a.CPUPercent < 70
         THEN StatusHealthy
         ELSE a.Status

\* HealthStatus testing the recovery condition before the degradation condition
HealthStatus_RecoverFirst(a) ==
    IF a.Status = StatusHealthy \/ a.Status = StatusDegraded
    THEN IF a.Status = StatusDegraded /\ VramUtilBelow(a, 7) /\ a.CPUPercent < 70
         THEN StatusHealthy
         ELSE IF VramUtilAbove(a, 9) \/ a.CPUPercent > 90 \/ a.FreeVRAMMB < 512
              THEN StatusDegraded
              ELSE a.Status
    ELSE a.Status

\* the status assignment of UpdateHealth: a is the record with the new metrics
HealthStatus(a) ==
    IF a.Status = StatusHealthy \/ a.Status = StatusDegraded
    THEN IF VramUtilAbove(a, 9) \/ a.CPUPercent > 90 \/ a.FreeVRAMMB < 512
         THEN IF a.Status = StatusHealthy THEN StatusDegraded ELSE a.Status
         ELSE IF a.Status = StatusDegraded /\ VramUtilBelow(a, 7)
                 /\ a.CPUPercent < 70
              THEN StatusHealthy
              ELSE a.Status
    ELSE a.Status

\* InMemoryRegistry.UpdateHealth on the record it found
ApplyHealth(agent, stats, t) ==
    LET a == [agent EXCEPT !.FreeVRAMMB = stats.FreeVRAMMB,
                           !.FreeRAMMB = stats.FreeRAMMB,
                           !.RunningJobs = stats.RunningJobs,
                           !.QueuedJobs = stats.QueuedJobs,
                           !.CPUPercent = stats.CPUPercent,
                           !.RTTMs = stats.RTTMs,
                           !.LastHeartbeat = t]
    IN  [a EXCEPT !.Status = HealthStatus(a)]

\* RecordSuccess closing the circuit from any status
ApplySuccess_FromAnyStatus(agent) ==
    LET a == [agent EXCEPT !.SuccessCount = agent.SuccessCount + 1,
                           !.FailureCount = 0]
    IN  IF a.SuccessCount >= SuccessThreshold
        THEN [a EXCEPT !.Status = StatusHealthy, !.SuccessCount = 0]
        ELSE a

\* InMemoryRegistry.RecordSuccess on the record it found
ApplySuccess(agent) ==
    LET a == [agent EXCEPT !.SuccessCount = agent.SuccessCount + 1,
                           !.FailureCount = 0]
    IN  IF a.Status = StatusHalfOpen /\ a.SuccessCount >= SuccessThreshold
        THEN [a EXCEPT !.Status = StatusHealthy, !.SuccessCount = 0]
        ELSE a

\* ApplyFailure opening the circuit one failure late
ApplyFailure_StrictThreshold(agent, t) ==
    LET a == [agent EXCEPT !.FailureCount = agent.FailureCount + 1,
                           !.SuccessCount = 0]
    IN  IF a.FailureCount > FailureThreshold
        THEN [a EXCEPT !.Status = StatusOffline,
                       !.NextRetryTime = t + RecoveryTimeout]
        ELSE a

\* ApplyFailure opening the circuit without arming the retry timer
ApplyFailure_NoRetryTime(agent, t) ==
    LET a == [agent EXCEPT !.FailureCount = agent.FailureCount + 1,
                           !.SuccessCount = 0]
    IN  IF a.FailureCount >= FailureThreshold
        THEN [a EXCEPT !.Status = StatusOffline]
        ELSE a

\* RecordFailure opening the circuit of Healthy records only
ApplyFailure_HealthyOnly(agent, t) ==
    LET a == [agent EXCEPT !.FailureCount = agent.FailureCount + 1,
                           !.SuccessCount = 0]
    IN  IF a.FailureCount >= FailureThreshold /\ a.Status # StatusDegraded
        THEN [a EXCEPT !.Status = StatusOffline,
                       !.NextRetryTime = t + RecoveryTimeout]
        ELSE a

\* ApplyFailure leaving the retry timer of an already Offline record alone
ApplyFailure_KeepsRetryTime(agent, t) ==
    LET a == [agent EXCEPT !.FailureCount = agent.FailureCount + 1,
                           !.SuccessCount = 0]
    IN  IF a.FailureCount >= FailureThreshold /\ agent.Status # StatusOffline
        THEN [a EXCEPT !.Status = StatusOffline,
                       !.NextRetryTime = t + RecoveryTimeout]
        ELSE a

\* InMemoryRegistry.RecordFailure on the record it found
ApplyFailure(agent, t) ==
    LET a == [agent EXCEPT !.FailureCount = agent.FailureCount + 1,
                           !.SuccessCount = 0]
    IN  IF a.FailureCount >= FailureThreshold
        THEN [a EXCEPT !.Status = StatusOffline,
                       !.NextRetryTime = t + RecoveryTimeout]
        ELSE a

\* updateCircuitBreakerState with !now.Before in place of now.After
updateCircuitBreakerState_AtOrAfter(agent, t) ==
    CASE agent.Status = StatusOffline /\ t >= agent.NextRetryTime ->
            [agent EXCEPT !.Status = StatusHalfOpen,
                          !.NextRetryTime = t + HalfOpenTimeout]
      [] agent.Status = StatusHalfOpen /\ t >= agent.NextRetryTime ->
            [agent EXCEPT !.Status = StatusOffline,
                          !.NextRetryTime = t + RecoveryTimeout]
      [] agent.Status = StatusDegraded /\ agent.FreeVRAMMB > 2048
            /\ agent.CPUPercent < 80 ->
            [agent EXCEPT !.Status = StatusHealthy, !.FailureCount = 0]
      [] OTHER -> agent

\* updateCircuitBreakerState half-opening a record without starting the
\* half-open timer
updateCircuitBreakerState_NoHalfOpenTimer(agent, t) ==
    CASE agent.Status = StatusOffline /\ t > agent.NextRetryTime ->
            [agent EXCEPT !.Status = StatusHalfOpen]
      [] agent.Status = StatusHalfOpen /\ t > agent.NextRetryTime ->
            [agent EXCEPT !.Status = StatusOffline,
                          !.NextRetryTime = t + RecoveryTimeout]
      [] agent.Status = StatusDegraded /\ agent.FreeVRAMMB > 2048
            /\ agent.CPUPercent < 80 ->
            [agent EXCEPT !.Status = StatusHealthy, !.FailureCount = 0]
      [] OTHER -> agent

\* InMemoryRegistry.updateCircuitBreakerState
updateCircuitBreakerState(agent, t) ==
    CASE agent.Status = StatusOffline /\ t > agent.NextRetryTime ->
            [agent EXCEPT !.Status = StatusHalfOpen,
                          !.NextRetryTime = t + HalfOpenTimeout]
      [] agent.Status = StatusHalfOpen /\ t > agent.NextRetryTime ->
            [agent EXCEPT !.Status = StatusOffline,
                          !.NextRetryTime = t + RecoveryTimeout]
      [] agent.Status = StatusDegraded /\ agent.FreeVRAMMB > 2048
            /\ agent.CPUPercent < 80 ->
            [agent EXCEPT !.Status = StatusHealthy, !.FailureCount = 0]
      [] OTHER -> agent

\* the heartbeat test of cleanupStaleAgents
IsStale(agent, t) == t - agent.LastHeartbeat > HeartbeatTimeout

\* the staleAgents list of cleanupStaleAgents
StaleAgents(m, t) == {id \in DOMAIN m : IsStale(m[id], t)}

\* cleanupStaleAgents marking the stale records Offline without deleting them
cleanupStaleAgents_NoDelete(m, t) ==
    [id \in DOMAIN m |->
        updateCircuitBreakerState(
            IF id \in StaleAgents(m, t)
            THEN [m[id] EXCEPT !.Status = StatusOffline]
            ELSE m[id], t)]

\* InMemoryRegistry.cleanupStaleAgents
cleanupStaleAgents(m, t) ==
    LET staleAgents == StaleAgents(m, t)
        visited == [id \in DOMAIN m |->
                       updateCircuitBreakerState(
                           IF id \in staleAgents
                           THEN [m[id] EXCEPT !.Status = StatusOffline]
                           ELSE m[id], t)]
    IN  MapDelete(visited, staleAgents)

\* ListHealthyAgents listing every record
ListHealthyAgents_All(m) == {m[id] : id \in DOMAIN m}

\* InMemoryRegistry.ListHealthyAgents: copies of the Healthy records
ListHealthyAgents(m) == {m[id] : id \in {k \in DOMAIN m : m[k].Status = StatusHealthy}}

\* InMemoryRegistry.ListAllAgents: copies of all records
ListAllAgents(m) == {m[id] : id \in DOMAIN m}

(***************************************************************************)
(* MCDA scheduler (pkg/scheduler/scheduler.go).                            *)
(***************************************************************************)

\* model[len(model)-n:]
Suffix(model, n) == SubSeq(model, Len(model) - n + 1, Len(model))

\* MCDAScheduler.estimateModelVRAMRequirement
estimateModelVRAMRequirement(model) ==
    IF model = << >> THEN 4096
    ELSE IF Len(model) > 10
         THEN IF Suffix(model, 3) = <<"1", "B">> \/ Suffix(model, 2) = <<"1", "B">>
              THEN 2048
              ELSE IF Suffix(model, 3) = <<"7", "B">>
                      \/ Suffix(model, 2) = <<"7", "B">>
                   THEN 6144
                   ELSE IF Suffix(model, 4) = <<"1", "3", "B">>
                           \/ Suffix(model, 3) = <<"1", "3", "B">>
                        THEN 10240
                        ELSE 4096
         ELSE 4096

\* supportsModel without the supported-models list
supportsModel_AnyModel(agent, model) ==
    IF agent.Status = StatusOffline THEN FALSE
    ELSE IF agent.FreeVRAMMB < estimateModelVRAMRequirement(model) THEN FALSE
    ELSE IF agent.RunningJobs >= agent.MaxJobs THEN FALSE
    ELSE TRUE

\* MCDAScheduler.supportsModel
supportsModel(agent, model) ==
    IF agent.Status = StatusOffline THEN FALSE
    ELSE IF agent.FreeVRAMMB < estimateModelVRAMRequirement(model) THEN FALSE
    ELSE IF agent.RunningJobs >= agent.MaxJobs THEN FALSE
    ELSE IF Len(agent.SupportedModels) > 0
         THEN \E i \in 1..Len(agent.SupportedModels) : agent.SupportedModels[i] = model
         ELSE TRUE

Max(a, b) == IF a >= b THEN a ELSE b
Min(a, b) == IF a <= b THEN a ELSE b

\* a/b < c/d for b > 0 and d > 0, without forming the cross products
RECURSIVE FracLess(_, _, _, _)
FracLess(a, b, c, d) ==
    LET qa == a \div b
        qc == c \div d
        ra == a % b
        rc == c % d
    IN  IF qa # qc THEN qa < qc
        ELSE IF rc = 0 THEN FALSE
        ELSE IF ra = 0 THEN TRUE
        ELSE FracLess(d, rc, b, ra)

\* MCDAScheduler.calculateMCDAScore: the weighted total as the fraction
\* Num/Den with Den = 5000 * max(total_vram,1) * max(max_jobs,1)
calculateMCDAScore(agent, perf) ==
    LET tm == Max(agent.TotalVRAMMB, 1)
        mm == Max(agent.MaxJobs, 1)
        \* 500 * PerfScore
        p == IF agent.ID \in DOMAIN perf
             THEN Min(5 * perf[agent.ID], 500)
             ELSE 250
    IN  [Agent |-> agent,
         Num |-> 2000 * (tm - (agent.TotalVRAMMB - agent.FreeVRAMMB)) * mm
                 + 1500 * (mm - agent.RunningJobs) * tm
                 + 2 * (500 - Min(agent.RTTMs, 500)) * tm * mm
                 + p * tm * mm,
         Den |-> 5000 * tm * mm]

\* score.Score *= 0.5
HalveScore(score) == [score EXCEPT !.Den = 2 * score.Den]

\* candidates[i].Score > candidates[j].Score
ScoreGreater(s1, s2) == FracLess(s2.Num, s2.Den, s1.Num, s1.Den)

\* first loop of SelectAgent: the scored candidates among the listed agents
Candidates(listed, perf, model) ==
    {IF a.Status = StatusDegraded
     THEN HalveScore(calculateMCDAScore(a, perf))
     ELSE calculateMCDAScore(a, perf) :
        a \in {x \in listed : supportsModel(x, model)
                              /\ (x.Status = StatusHealthy
                                  \/ x.Status = StatusHalfOpen)}}

\* the fallback asking for a free job slot
FallbackCandidates_WithCapacity(listed, perf) ==
    {calculateMCDAScore(a, perf) :
        a \in {x \in listed : x.Status = StatusHealthy /\ x.RunningJobs < x.MaxJobs}}

\* second loop of SelectAgent: any healthy agent, whatever its resources
FallbackCandidates(listed, perf) ==
    {calculateMCDAScore(a, perf) : a \in {x \in listed : x.Status = StatusHealthy}}

\* MCDAScheduler.SelectAgent: the agents it can return for the registry m
\* (none: it returns an error).  sort.Slice is not stable and the map is
\* listed in no fixed order, so among equal top scores any may come first.
SelectAgent(m, perf, model) ==
    LET listed == ListHealthyAgents(m)
        first == Candidates(listed, perf, model)
        candidates == IF first = {} THEN FallbackCandidates(listed, perf) ELSE first
    IN  {c.Agent : c \in {x \in candidates :
                             \A y \in candidates : ~ScoreGreater(y, x)}}

(***************************************************************************)
(* Session tokens (pkg/server/server.go).                                  *)
(***************************************************************************)

\* the seconds that may pass between the clock read of generateSessionToken
\* and the later clock read of JWTManager.GenerateToken
ClockSkews == {0, 1}

\* the key pair NewJWTManager generated, and a key pair of somebody else
CoordinatorKey == "coordinator"
OtherKey == "other"

\* the JSON object a JWTClaims value is marshalled to: its members in the
\* order of the struct fields; NumericDate values are whole seconds
EncodeClaims(c) ==
    << <<"agent_id", c.agent_id>>, <<"client_id", c.client_id>>,
       <<"model", c.model>>, <<"iss", c.iss>>, <<"exp", c.exp>>,
       <<"nbf", c.nbf>>, <<"iat", c.iat>>, <<"jti", c.jti>> >>

\* the member called name of a JSON object, or zero when it has none
Member(payload, name, zero) ==
    IF \E i \in 1..Len(payload) : payload[i][1] = name
    THEN payload[CHOOSE i \in 1..Len(payload) : payload[i][1] = name][2]
    ELSE zero

\* the JWTClaims value a JSON object is unmarshalled to
DecodeClaims(payload) ==
    [agent_id |-> Member(payload, "agent_id", ""),
     client_id |-> Member(payload, "client_id", ""),
     model |-> Member(payload, "model", << >>),
     iss |-> Member(payload, "iss", ""),
     exp |-> Member(payload, "exp", ZeroTime),
     nbf |-> Member(payload, "nbf", ZeroTime),
     iat |-> Member(payload, "iat", ZeroTime),
     jti |-> Member(payload, "jti", 0)]

\* a signature made with the private half of key over a header and a
\* payload: it verifies under the public half of that key, for that header
\* and that payload only
Sign(key, header, payload) == [key |-> key, header |-> header, payload |-> payload]

\* token.SignedString: header, payload and signature
SignedString(header, payload, key) ==
    [header |-> header, payload |-> payload,
     signature |-> Sign(key, header, payload)]

\* GenerateToken with the agent id and the client id taken for one another
GenerateToken_SwapsIds(agentID, clientID, model, ttl, jti, t) ==
    SignedString([alg |-> "RS256", typ |-> "JWT"],
                 EncodeClaims([jti |-> jti, iss |-> "titancompute-coordinator",
                               iat |-> t, exp |-> t + ttl, nbf |-> t,
                               agent_id |-> clientID, client_id |-> agentID,
                               model |-> model]),
                 CoordinatorKey)

\* JWTManager.GenerateToken: the signed token
GenerateToken(agentID, clientID, model, ttl, jti, t) ==
    SignedString([alg |-> "RS256", typ |-> "JWT"],
                 EncodeClaims([jti |-> jti, iss |-> "titancompute-coordinator",
                               iat |-> t, exp |-> t + ttl, nbf |-> t,
                               agent_id |-> agentID, client_id |-> clientID,
                               model |-> model]),
                 CoordinatorKey)

\* the names jwt.SigningMethodRSA is registered under
RSAMethods == {"RS256", "RS384", "RS512"}

\* ValidateToken without the verification of the signature
ValidateToken_NoSignatureCheck(tokenString, t) ==
    LET claims == DecodeClaims(tokenString.payload)
    IN  IF tokenString.header.alg \notin RSAMethods
        THEN [err |-> "unexpected signing method", claims |-> EmptyMap]
        ELSE IF ~(t < claims.exp)
        THEN [err |-> "token is expired", claims |-> EmptyMap]
        ELSE IF t < claims.nbf
        THEN [err |-> "token is not valid yet", claims |-> EmptyMap]
        ELSE [err |-> "", claims |-> claims]

\* JWTManager.ValidateToken at time t (jwt.ParseWithClaims: the method test of
\* the key function, the signature, then exp and nbf): the claims, or an error
ValidateToken(tokenString, t) ==
    LET claims == DecodeClaims(tokenString.payload)
    IN  IF tokenString.header.alg \notin RSAMethods
        THEN [err |-> "unexpected signing method", claims |-> EmptyMap]
        ELSE IF tokenString.signature
                  # Sign(CoordinatorKey, tokenString.header, tokenString.payload)
        THEN [err |-> "signature is invalid", claims |-> EmptyMap]
        ELSE IF ~(t < claims.exp)
        THEN [err |-> "token is expired", claims |-> EmptyMap]
        ELSE IF t < claims.nbf
        THEN [err |-> "token is not valid yet", claims |-> EmptyMap]
        ELSE [err |-> "", claims |-> claims]

\* the SessionToken built by CoordinatorServer.generateSessionToken
generateSessionToken(agentID, clientID, model, t, skew, n) ==
    [ID |-> n + 2, AgentID |-> agentID, ClientID |-> clientID, Model |-> model,
     IssuedAt |-> t, ExpiresAt |-> t + config.TokenTTL,
     JWTToken |-> GenerateToken(agentID, clientID, model, config.TokenTTL,
                                n + 1, t + skew)]

\* the sweep of CoordinatorServer.cleanupExpiredTokens
cleanupExpiredTokens(toks, t) ==
    MapDelete(toks, {id \in DOMAIN toks : t > toks[id].ExpiresAt})

(***************************************************************************)
(* Configuration (pkg/config/config.go).  Durations are whole seconds.     *)
(***************************************************************************)

\* values of the TOKEN_TTL environment variable, as sequences of characters;
\* the empty sequence is the unset variable
EnvUnset == << >>

\* unset, "90s", "2m", "0s", "-30s", "60" and "soon"
TokenTTLEnvs ==
    {EnvUnset, <<"9", "0", "s">>, <<"2", "m">>, <<"0", "s">>,
     <<"-", "3", "0", "s">>, <<"6", "0">>, <<"s", "o", "o", "n">>}

DigitChars == {"0", "1", "2", "3", "4", "5", "6", "7", "8", "9"}

DigitValue(c) ==
    CASE c = "0" -> 0 [] c = "1" -> 1 [] c = "2" -> 2 [] c = "3" -> 3 [] c = "4" -> 4
      [] c = "5" -> 5 [] c = "6" -> 6 [] c = "7" -> 7 [] c = "8" -> 8 [] c = "9" -> 9

\* the number of decimal digits s starts with
RECURSIVE LeadingDigits(_)
LeadingDigits(s) ==
    IF s = << >> \/ Head(s) \notin DigitChars THEN 0 ELSE 1 + LeadingDigits(Tail(s))

\* the value of a sequence of decimal digits
RECURSIVE DecimalValue(_)
DecimalValue(s) ==
    IF s = << >> THEN 0
    ELSE 10 * DecimalValue(SubSeq(s, 1, Len(s) - 1)) + DigitValue(s[Len(s)])

\* time.ParseDuration for a string of one component (sign, whole number,
\* unit s, m or h): the duration in seconds, or an error
ParseDuration(s) ==
    LET body == IF s # << >> /\ Head(s) \in {"-", "+"} THEN Tail(s) ELSE s
        nd == LeadingDigits(body)
        unit == SubSeq(body, nd + 1, Len(body))
        scale == CASE unit = <<"s">> -> 1 [] unit = <<"m">> -> 60
                   [] unit = <<"h">> -> 3600 [] OTHER -> 0
        d == DecimalValue(SubSeq(body, 1, nd)) * scale
    IN  IF body = <<"0">> THEN [err |-> FALSE, d |-> 0]
        ELSE IF nd = 0 \/ scale = 0 THEN [err |-> TRUE, d |-> 0]
        ELSE [err |-> FALSE, d |-> IF Head(s) = "-" THEN 0 - d ELSE d]

\* config.Load: the default, overridden by a TOKEN_TTL that parses
Load(env) ==
    [TokenTTL |-> IF env # << >> /\ ~ParseDuration(env).err
                  THEN ParseDuration(env).d
                  ELSE TokenTTL]

(***************************************************************************)
(* Goroutines and locks.                                                   *)
(***************************************************************************)

\* sync.RWMutex: the number of read locks held, and the goroutine that has
\* announced a write lock ("" for none) with whether it holds it yet.  A
\* writer announces itself, which stops new readers, and then waits for the
\* readers inside to leave.
NewRWMutex == [readers |-> 0, writer |-> "", held |-> FALSE]

\* RLock returning at once whatever the writers do
CanRLock_NeverWaits(m) == TRUE

\* RLock returns at once: no writer holds or waits for the lock
CanRLock(m) ==
    m.writer = ""

RLock(m) == [m EXCEPT !.readers = m.readers + 1]

RUnlock(m) == [m EXCEPT !.readers = m.readers - 1]

\* Lock gets past the writers' mutex: no other writer holds or waits
CanAnnounce(m) == m.writer = ""

Announce(m, g) == [m EXCEPT !.writer = g]

\* Lock returns: the readers have left
CanLock(m, g) == m.writer = g /\ ~m.held /\ m.readers = 0

Lock(m) == [m EXCEPT !.held = TRUE]

Unlock(m) == [m EXCEPT !.writer = "", !.held = FALSE]

\* no ReportHealth stream is open
NoStream ==
    [pc |-> "none", inbox |-> << >>, closed |-> FALSE, broken |-> FALSE,
     ack |-> << >>, received |-> << >>, acks |-> << >>]

(***************************************************************************)
(* The state machine.                                                      *)
(***************************************************************************)

\* what an operation returned: its status code and its results
Reply(code, results) == [code |-> code, results |-> results]

\* the coordinator as main leaves it, started in the environment env
Started(env) ==
    /\ agents = EmptyMap
    /\ now = 0
    /\ nextTick = CleanupInterval
    /\ perfHistory = EmptyMap
    /\ tokens = EmptyMap
    /\ sweeps = << >>
    /\ uuid = 0
    /\ resp = Reply("OK", EmptyMap)
    /\ probes = EmptyMap
    /\ replaced = ""
    /\ config = Load(env)
    /\ stream = NoStream
    /\ threads = EmptyMap
    /\ mu = [registry |-> NewRWMutex, scheduler |-> NewRWMutex]

Init == Started(EnvUnset)

\* RegisterAgent without the endpoint validation
RegisterAgent_NoEndpointCheck(id, req) ==
    /\ IF id = ""
       THEN /\ resp' = Reply("InvalidArgument", [Message |-> "agent_id is required"])
            /\ replaced' = ""
            /\ UNCHANGED <<agents, probes>>
       ELSE /\ agents' = Register(agents, NewAgentInfo(id, req), now)
            /\ resp' = Reply("OK",
                             [HeartbeatIntervalSeconds |-> HeartbeatTimeout \div 2])
            /\ probes' = MapDelete(probes, {id})
            /\ replaced' = IF id \in DOMAIN agents THEN agents[id].Status ELSE ""
    /\ UNCHANGED <<now, nextTick, perfHistory, config, fine, tokens, sweeps, uuid>>

\* CoordinatorServer.RegisterAgent
RegisterAgent(id, req) ==
    /\ IF id = ""
       THEN /\ resp' = Reply("InvalidArgument", [Message |-> "agent_id is required"])
            /\ replaced' = ""
            /\ UNCHANGED <<agents, probes>>
       ELSE IF req.Endpoint = ""
       THEN /\ resp' = Reply("InvalidArgument", [Message |-> "endpoint is required"])
            /\ replaced' = ""
            /\ UNCHANGED <<agents, probes>>
       ELSE /\ agents' = Register(agents, NewAgentInfo(id, req), now)
            /\ resp' = Reply("OK",
                             [HeartbeatIntervalSeconds |-> HeartbeatTimeout \div 2])
            /\ probes' = MapDelete(probes, {id})
            /\ replaced' = IF id \in DOMAIN agents THEN agents[id].Status ELSE ""
    /\ UNCHANGED <<now, nextTick, perfHistory, config, fine, tokens, sweeps, uuid>>

\* InMemoryRegistry.Deregister
Deregister(id) ==
    /\ IF id \notin DOMAIN agents
       THEN /\ resp' = Reply("NotFound", EmptyMap)
            /\ UNCHANGED <<agents, probes>>
       ELSE /\ agents' = MapDelete(agents, {id})
            /\ resp' = Reply("OK", EmptyMap)
            /\ probes' = MapDelete(probes, {id})
    /\ UNCHANGED <<now, nextTick, perfHistory, config, fine, tokens, sweeps, uuid>>
    /\ replaced' = ""

\* UpdateHealth creating a record for an id it does not find
UpdateHealth_Upsert(id, stats) ==
    /\ agents' = MapPut(agents, id,
                        ApplyHealth(IF id \in DOMAIN agents THEN agents[id]
                                    ELSE NewAgentInfo(id, RegNoEndpoint),
                                    stats, now))
    /\ resp' = Reply("OK", [AgentId |-> id, Status |-> "ok"])
    /\ UNCHANGED <<now, nextTick, perfHistory, config, fine, tokens, sweeps, uuid, probes>>
    /\ replaced' = ""

\* one heartbeat of CoordinatorServer.ReportHealth: InMemoryRegistry.UpdateHealth
\* and the ack sent back on the stream
UpdateHealth(id, stats) ==
    /\ IF id \notin DOMAIN agents
       THEN /\ resp' = Reply("NotFound", [AgentId |-> id, Status |-> "error"])
            /\ UNCHANGED agents
       ELSE /\ agents' = [agents EXCEPT ![id] = ApplyHealth(agents[id], stats, now)]
            /\ resp' = Reply("OK", [AgentId |-> id, Status |-> "ok"])
    /\ UNCHANGED <<now, nextTick, perfHistory, config, fine, tokens, sweeps, uuid, probes>>
    /\ replaced' = ""

\* InMemoryRegistry.GetAgent: a copy of the record
GetAgent(id) ==
    /\ resp' = IF id \notin DOMAIN agents
               THEN Reply("NotFound", EmptyMap)
               ELSE Reply("OK", [Agent |-> agents[id]])
    /\ replaced' = ""
    /\ UNCHANGED <<agents, now, nextTick, perfHistory, config, fine, tokens, sweeps, uuid, probes>>

\* InMemoryRegistry.GetCircuitState
GetCircuitState(id) ==
    /\ resp' = IF id \notin DOMAIN agents
               THEN Reply("NotFound", [CircuitState |-> StatusOffline])
               ELSE Reply("OK", [CircuitState |-> agents[id].Status])
    /\ replaced' = ""
    /\ UNCHANGED <<agents, now, nextTick, perfHistory, config, fine, tokens, sweeps, uuid, probes>>

\* InMemoryRegistry.RecordSuccess
RecordSuccess(id) ==
    /\ IF id \notin DOMAIN agents
       THEN /\ resp' = Reply("NotFound", EmptyMap)
            /\ UNCHANGED <<agents, probes>>
       ELSE /\ agents[id].SuccessCount < MaxSuccesses
            /\ agents' = [agents EXCEPT ![id] = ApplySuccess(agents[id])]
            /\ resp' = Reply("OK", EmptyMap)
            /\ probes' = IF id \in DOMAIN probes /\ probes[id] < SuccessThreshold
                         THEN [probes EXCEPT ![id] = probes[id] + 1]
                         ELSE MapDelete(probes, {id})
    /\ UNCHANGED <<now, nextTick, perfHistory, config, fine, tokens, sweeps, uuid>>
    /\ replaced' = ""

\* InMemoryRegistry.RecordFailure
RecordFailure(id) ==
    /\ IF id \notin DOMAIN agents
       THEN /\ resp' = Reply("NotFound", EmptyMap)
            /\ UNCHANGED <<agents, probes>>
       ELSE /\ agents[id].FailureCount < MaxFailures
            /\ agents' = [agents EXCEPT ![id] = ApplyFailure(agents[id], now)]
            /\ resp' = Reply("OK", EmptyMap)
            /\ probes' = MapDelete(probes, {id})
    /\ UNCHANGED <<now, nextTick, perfHistory, config, fine, tokens, sweeps, uuid>>
    /\ replaced' = ""

\* the records this tick moves from Offline to HalfOpen
HalfOpened(old, new) ==
    {id \in DOMAIN new : old[id].Status = StatusOffline
                         /\ new[id].Status = StatusHalfOpen}

\* the records whose half-open period this tick ends
TimedOut(old, new) ==
    {id \in DOMAIN new : old[id].Status = StatusHalfOpen
                         /\ new[id].Status = StatusOffline}

\* one firing of the ticker of InMemoryRegistry.StartCleanup; the reply is the
\* "Cleanup completed" log entry, written when records were removed
CleanupTick ==
    /\ now >= nextTick
    /\ agents' = cleanupStaleAgents(agents, now)
    /\ nextTick' = nextTick + CleanupInterval
    /\ resp' = IF StaleAgents(agents, now) = {}
               THEN Reply("OK", EmptyMap)
               ELSE Reply("OK", [removed_count |-> Cardinality(StaleAgents(agents, now))])
    /\ probes' = [id \in HalfOpened(agents, agents')
                         \cup ((DOMAIN probes \cap DOMAIN agents')
                               \ TimedOut(agents, agents')) |->
                     IF id \in HalfOpened(agents, agents') THEN 0 ELSE probes[id]]
    /\ UNCHANGED <<now, perfHistory, config, fine, tokens, sweeps, uuid>>
    /\ replaced' = ""

\* RequestInference without the prompt validation
RequestInference_NoPromptCheck(clientId, model, prompt) ==
    IF clientId = "" \/ model = << >>
    THEN /\ resp' = Reply("InvalidArgument",
                          [Message |-> IF clientId = "" THEN "client_id is required"
                                       ELSE "model is required"])
         /\ replaced' = ""
         /\ UNCHANGED <<agents, now, nextTick, perfHistory, config, fine, tokens, sweeps, uuid, probes>>
    ELSE IF SelectAgent(agents, perfHistory, model) = {}
    THEN /\ resp' = Reply("Unavailable", [Message |-> "no agents available"])
         /\ replaced' = ""
         /\ UNCHANGED <<agents, now, nextTick, perfHistory, config, fine, tokens, sweeps, uuid, probes>>
    ELSE \E agent \in SelectAgent(agents, perfHistory, model), skew \in ClockSkews :
            LET token == generateSessionToken(agent.ID, clientId, model, now, skew, uuid)
            IN  /\ uuid + 3 <= MaxUUID
                /\ tokens' = MapPut(tokens, token.ID, token)
                /\ sweeps' = Append(sweeps, now + TokenSweepDelay)
                /\ uuid' = uuid + 3
                /\ resp' = Reply("OK",
                                 [AgentEndpoint |-> agent.Endpoint,
                                  SessionToken |-> token.JWTToken,
                                  ExpiresAt |-> token.ExpiresAt,
                                  JobId |-> uuid + 3,
                                  EstimatedRttMs |-> agent.RTTMs,
                                  AgentId |-> agent.ID])
                /\ replaced' = ""
                /\ UNCHANGED <<agents, now, nextTick, perfHistory, config, fine, probes>>

\* CoordinatorServer.RequestInference
RequestInference(clientId, model, prompt) ==
    IF clientId = "" \/ model = << >> \/ prompt = ""
    THEN /\ resp' = Reply("InvalidArgument",
                          [Message |-> IF clientId = "" THEN "client_id is required"
                                       ELSE IF model = << >> THEN "model is required"
                                       ELSE "prompt is required"])
         /\ replaced' = ""
         /\ UNCHANGED <<agents, now, nextTick, perfHistory, config, fine, tokens, sweeps, uuid, probes>>
    ELSE IF SelectAgent(agents, perfHistory, model) = {}
    THEN /\ resp' = Reply("Unavailable", [Message |-> "no agents available"])
         /\ replaced' = ""
         /\ UNCHANGED <<agents, now, nextTick, perfHistory, config, fine, tokens, sweeps, uuid, probes>>
    ELSE \E agent \in SelectAgent(agents, perfHistory, model), skew \in ClockSkews :
            LET token == generateSessionToken(agent.ID, clientId, model, now, skew, uuid)
            IN  /\ uuid + 3 <= MaxUUID
                /\ tokens' = MapPut(tokens, token.ID, token)
                /\ sweeps' = Append(sweeps, now + TokenSweepDelay)
                /\ uuid' = uuid + 3
                /\ resp' = Reply("OK",
                                 [AgentEndpoint |-> agent.Endpoint,
                                  SessionToken |-> token.JWTToken,
                                  ExpiresAt |-> token.ExpiresAt,
                                  JobId |-> uuid + 3,
                                  EstimatedRttMs |-> agent.RTTMs,
                                  AgentId |-> agent.ID])
                /\ replaced' = ""
                /\ UNCHANGED <<agents, now, nextTick, perfHistory, config, fine, probes>>

\* sendErrorResponse: the HTTP status and the JSON error body
ErrorResponseREST(statusCode, errorCode, message) ==
    Reply(statusCode, [error |-> errorCode, message |-> message])

\* RESTHandler.handleInferenceRequest, for a body that decodes; HTTP statuses
\* are written as strings; the job id is derived from the clock
handleInferenceRequest(clientId, model, prompt) ==
    IF clientId = "" \/ model = << >> \/ prompt = ""
    THEN /\ resp' = IF clientId = ""
                    THEN ErrorResponseREST("400", "missing_client_id",
                                           "client_id is required")
                    ELSE IF model = << >>
                    THEN ErrorResponseREST("400", "missing_model", "model is required")
                    ELSE ErrorResponseREST("400", "missing_prompt", "prompt is required")
         /\ replaced' = ""
         /\ UNCHANGED <<agents, now, nextTick, perfHistory, config, fine, tokens, sweeps, uuid, probes>>
    ELSE IF SelectAgent(agents, perfHistory, model) = {}
    THEN /\ resp' = ErrorResponseREST("503", "no_agents",
                                      "No agents available for the requested model")
         /\ replaced' = ""
         /\ UNCHANGED <<agents, now, nextTick, perfHistory, config, fine, tokens, sweeps, uuid, probes>>
    ELSE \E agent \in SelectAgent(agents, perfHistory, model), skew \in ClockSkews :
            LET token == generateSessionToken(agent.ID, clientId, model, now, skew, uuid)
            IN  /\ uuid + 2 <= MaxUUID
                /\ tokens' = MapPut(tokens, token.ID, token)
                /\ sweeps' = Append(sweeps, now + TokenSweepDelay)
                /\ uuid' = uuid + 2
                /\ resp' = Reply("200",
                                 [agent_endpoint |-> agent.Endpoint,
                                  session_token |-> token.JWTToken,
                                  expires_at |-> token.ExpiresAt,
                                  job_id |-> <<"job_", now>>,
                                  estimated_rtt_ms |-> agent.RTTMs,
                                  agent_id |-> agent.ID])
                /\ replaced' = ""
                /\ UNCHANGED <<agents, now, nextTick, perfHistory, config, fine, probes>>

\* an agent opens a ReportHealth stream: the handler starts at stream.Recv
OpenStream ==
    /\ stream.pc = "none"
    /\ stream' = [stream EXCEPT !.pc = "recv"]
    /\ replaced' = ""
    /\ UNCHANGED <<agents, now, nextTick, perfHistory, config, threads, mu, tokens,
                   sweeps, uuid, resp, probes>>

\* the agent puts a pb.HealthUpdate on the stream
AgentSends(id, stats) ==
    /\ stream.pc \in {"recv", "send"}
    /\ ~stream.closed /\ ~stream.broken
    /\ Len(stream.received) + Len(stream.inbox) < MaxHeartbeats
    /\ stream' = [stream EXCEPT !.inbox = Append(stream.inbox,
                                                 [AgentId |-> id, Stats |-> stats])]
    /\ replaced' = ""
    /\ UNCHANGED <<agents, now, nextTick, perfHistory, config, threads, mu, tokens,
                   sweeps, uuid, resp, probes>>

\* the agent closes its side of the stream: Recv returns io.EOF once the
\* heartbeats already sent have been received
AgentCloses ==
    /\ stream.pc \in {"recv", "send"}
    /\ ~stream.closed /\ ~stream.broken
    /\ stream' = [stream EXCEPT !.closed = TRUE]
    /\ replaced' = ""
    /\ UNCHANGED <<agents, now, nextTick, perfHistory, config, threads, mu, tokens,
                   sweeps, uuid, resp, probes>>

\* the transport fails: Recv and Send return an error from now on
TransportBreaks ==
    /\ stream.pc \in {"recv", "send"}
    /\ ~stream.broken
    /\ stream' = [stream EXCEPT !.broken = TRUE]
    /\ replaced' = ""
    /\ UNCHANGED <<agents, now, nextTick, perfHistory, config, threads, mu, tokens,
                   sweeps, uuid, resp, probes>>

\* the pb.HealthAck for a heartbeat of agent id
HealthAck(id, applied) ==
    [AgentId |-> id, Status |-> IF applied THEN "ok" ELSE "error"]

\* the heartbeat at the head of the stream, with whether its agent was
\* registered when it arrived
Arrival == [AgentId |-> Head(stream.inbox).AgentId, Stats |-> Head(stream.inbox).Stats,
            Registered |-> Head(stream.inbox).AgentId \in DOMAIN agents]

\* ReportHealth returning the error of UpdateHealth instead of acknowledging it
ReportHealthRecv_ReturnsOnError ==
    /\ stream.pc = "recv"
    /\ IF stream.broken
       THEN /\ stream' = [stream EXCEPT !.pc = "done"]
            /\ resp' = Reply("Error", [Message |-> "stream error"])
            /\ UNCHANGED agents
       ELSE IF stream.inbox # << >>
       THEN IF Arrival.AgentId \in DOMAIN agents
            THEN /\ agents' = [agents EXCEPT ![Arrival.AgentId] =
                                  ApplyHealth(agents[Arrival.AgentId],
                                              Arrival.Stats, now)]
                 /\ stream' = [stream EXCEPT
                                  !.inbox = Tail(stream.inbox),
                                  !.received = Append(stream.received, Arrival),
                                  !.ack = HealthAck(Arrival.AgentId, TRUE),
                                  !.pc = "send"]
                 /\ UNCHANGED resp
            ELSE /\ stream' = [stream EXCEPT
                                  !.inbox = Tail(stream.inbox),
                                  !.received = Append(stream.received, Arrival),
                                  !.pc = "done"]
                 /\ resp' = Reply("NotFound", EmptyMap)
                 /\ UNCHANGED agents
       ELSE /\ stream.closed
            /\ stream' = [stream EXCEPT !.pc = "done"]
            /\ resp' = Reply("OK", EmptyMap)
            /\ UNCHANGED agents
    /\ replaced' = ""
    /\ UNCHANGED <<now, nextTick, perfHistory, config, threads, mu, tokens, sweeps,
                   uuid, probes>>

\* CoordinatorServer.ReportHealth from stream.Recv to the ack it builds: a
\* transport error or the end of the stream ends the handler; a heartbeat is
\* handed to InMemoryRegistry.UpdateHealth
ReportHealthRecv ==
    /\ stream.pc = "recv"
    /\ IF stream.broken
       THEN /\ stream' = [stream EXCEPT !.pc = "done"]
            /\ resp' = Reply("Error", [Message |-> "stream error"])
            /\ UNCHANGED agents
       ELSE IF stream.inbox # << >>
       THEN /\ agents' = IF Arrival.AgentId \in DOMAIN agents
                         THEN [agents EXCEPT ![Arrival.AgentId] =
                                  ApplyHealth(agents[Arrival.AgentId],
                                              Arrival.Stats, now)]
                         ELSE agents
            /\ stream' = [stream EXCEPT
                             !.inbox = Tail(stream.inbox),
                             !.received = Append(stream.received, Arrival),
                             !.ack = HealthAck(Arrival.AgentId,
                                               Arrival.AgentId \in DOMAIN agents),
                             !.pc = "send"]
            /\ UNCHANGED resp
       ELSE /\ stream.closed
            /\ stream' = [stream EXCEPT !.pc = "done"]
            /\ resp' = Reply("OK", EmptyMap)
            /\ UNCHANGED agents
    /\ replaced' = ""
    /\ UNCHANGED <<now, nextTick, perfHistory, config, threads, mu, tokens, sweeps,
                   uuid, probes>>

\* CoordinatorServer.ReportHealth at stream.Send: the ack goes out and the
\* handler is back at stream.Recv, or the transport has failed and it returns
ReportHealthSend ==
    /\ stream.pc = "send"
    /\ IF stream.broken
       THEN /\ stream' = [stream EXCEPT !.pc = "done"]
            /\ resp' = Reply("Error", [Message |-> "stream error"])
       ELSE /\ stream' = [stream EXCEPT !.acks = Append(stream.acks, stream.ack),
                                        !.ack = << >>, !.pc = "recv"]
            /\ resp' = Reply(IF stream.ack.Status = "ok" THEN "OK" ELSE "NotFound",
                             stream.ack)
    /\ replaced' = ""
    /\ UNCHANGED <<agents, now, nextTick, perfHistory, config, threads, mu, tokens,
                   sweeps, uuid, probes>>

\* the model name made of n letters
Stem(n) == [i \in 1..n |-> "m"]

\* the size tokens model names end with, and endings that are none of them
NameEndings == {<<"1", "B">>, <<"7", "B">>, <<"1", "3", "B">>, <<"3", "B">>,
                <<"7", "b">>, << >>}

\* model names of every length up to MaxStem + 3: a stem and an ending
ModelNames == {Stem(n) \o ending : n \in 0..MaxStem, ending \in NameEndings}

\* the scheduler estimates the VRAM a model needs, as supportsModel asks it to
EstimateVRAM(model) ==
    /\ resp' = Reply("OK", [Model |-> model,
                            EstimatedVRAMMB |-> estimateModelVRAMRequirement(model)])
    /\ replaced' = ""
    /\ UNCHANGED <<agents, now, nextTick, perfHistory, config, fine, tokens, sweeps,
                   uuid, probes>>

\* a goroutine inside MCDAScheduler.SelectAgent and one inside
\* MCDAScheduler.UpdatePerformanceHistory
Selector == "selector"
Updater == "updater"

\* the variables no step of the scheduler's goroutines writes
schedRest == <<now, nextTick, config, stream, tokens, sweeps, uuid, probes>>

\* SelectAgent takes the read lock of s.mu, to release it when it returns
SelectAgentEnter(model) ==
    /\ Selector \notin DOMAIN threads
    /\ CanRLock(mu.scheduler)
    /\ mu' = [mu EXCEPT !.scheduler = RLock(mu.scheduler)]
    /\ threads' = MapPut(threads, Selector, [pc |-> "list", model |-> model])
    /\ replaced' = ""
    /\ UNCHANGED <<agents, perfHistory, resp>>
    /\ UNCHANGED schedRest

\* SelectAgent lists the healthy agents and starts its first loop over them
SelectAgentList ==
    /\ Selector \in DOMAIN threads
    /\ threads[Selector].pc = "list"
    /\ LET model == threads[Selector].model
           listed == ListHealthyAgents(agents)
       IN  threads' = [threads EXCEPT ![Selector] =
             IF listed = {}
             THEN [pc |-> "return", model |-> model,
                   err |-> "no healthy agents available", candidates |-> {}]
             ELSE [pc |-> "loop", model |-> model, listed |-> listed,
                   pass |-> "first", candidates |-> {},
                   todo |-> {x \in listed :
                               /\ supportsModel(x, model)
                               /\ (x.Status = StatusHealthy
                                   \/ x.Status = StatusHalfOpen)}]]
    /\ replaced' = ""
    /\ UNCHANGED <<agents, perfHistory, mu, resp>>
    /\ UNCHANGED schedRest

\* calculateMCDAScore, called by SelectAgent for the next agent of its loop,
\* takes the read lock of s.mu again
calculateMCDAScoreRLock ==
    /\ Selector \in DOMAIN threads
    /\ threads[Selector].pc = "loop"
    /\ CanRLock(mu.scheduler)
    /\ \E agent \in threads[Selector].todo :
          threads' = [threads EXCEPT ![Selector] =
             [pc |-> "score", model |-> threads[Selector].model,
              listed |-> threads[Selector].listed, pass |-> threads[Selector].pass,
              candidates |-> threads[Selector].candidates,
              todo |-> threads[Selector].todo \ {agent}, agent |-> agent]]
    /\ mu' = [mu EXCEPT !.scheduler = RLock(mu.scheduler)]
    /\ replaced' = ""
    /\ UNCHANGED <<agents, perfHistory, resp>>
    /\ UNCHANGED schedRest

\* calculateMCDAScore reads s.perfHistory, releases its read lock and
\* returns the score, which SelectAgent appends to its candidates
calculateMCDAScoreRUnlock ==
    /\ Selector \in DOMAIN threads
    /\ threads[Selector].pc = "score"
    /\ LET t == threads[Selector]
           score == calculateMCDAScore(t.agent, perfHistory)
       IN  threads' = [threads EXCEPT ![Selector] =
             [pc |-> "loop", model |-> t.model, listed |-> t.listed,
              pass |-> t.pass, todo |-> t.todo,
              candidates |-> t.candidates \cup
                 {IF t.pass = "first" /\ t.agent.Status = StatusDegraded
                  THEN HalveScore(score) ELSE score}]]
    /\ mu' = [mu EXCEPT !.scheduler = RUnlock(mu.scheduler)]
    /\ replaced' = ""
    /\ UNCHANGED <<agents, perfHistory, resp>>
    /\ UNCHANGED schedRest

\* SelectAgent at the end of a loop: the second loop over the healthy agents
\* when the first found no candidate, else the error or the sorted candidates
SelectAgentLoopEnd ==
    /\ Selector \in DOMAIN threads
    /\ threads[Selector].pc = "loop"
    /\ threads[Selector].todo = {}
    /\ LET t == threads[Selector]
       IN  threads' = [threads EXCEPT ![Selector] =
             IF t.candidates = {} /\ t.pass = "first"
             THEN [t EXCEPT !.pass = "fallback",
                            !.todo = {x \in t.listed : x.Status = StatusHealthy}]
             ELSE [pc |-> "return", model |-> t.model,
                   err |-> IF t.candidates = {}
                           THEN "no suitable agents available" ELSE "",
                   candidates |-> t.candidates]]
    /\ replaced' = ""
    /\ UNCHANGED <<agents, perfHistory, mu, resp>>
    /\ UNCHANGED schedRest

\* SelectAgent returns the first of the sorted candidates, or its error, and
\* its deferred RUnlock runs
SelectAgentReturn ==
    /\ Selector \in DOMAIN threads
    /\ threads[Selector].pc = "return"
    /\ LET t == threads[Selector]
       IN  IF t.err # ""
           THEN resp' = Reply("Error", [Message |-> t.err])
           ELSE \E c \in {x \in t.candidates :
                             \A y \in t.candidates : ~ScoreGreater(y, x)} :
                  resp' = Reply("OK", [Agent |-> c.Agent])
    /\ threads' = MapDelete(threads, {Selector})
    /\ mu' = [mu EXCEPT !.scheduler = RUnlock(mu.scheduler)]
    /\ replaced' = ""
    /\ UNCHANGED <<agents, perfHistory>>
    /\ UNCHANGED schedRest

\* UpdatePerformanceHistory calls s.mu.Lock(): it is the writer new readers
\* wait behind
UpdatePerformanceHistoryEnter(id, tokensPerSec) ==
    /\ Updater \notin DOMAIN threads
    /\ CanAnnounce(mu.scheduler)
    /\ mu' = [mu EXCEPT !.scheduler = Announce(mu.scheduler, Updater)]
    /\ threads' = MapPut(threads, Updater,
                         [pc |-> "lock", id |-> id, tokensPerSec |-> tokensPerSec])
    /\ replaced' = ""
    /\ UNCHANGED <<agents, perfHistory, resp>>
    /\ UNCHANGED schedRest

\* s.mu.Lock() returns to UpdatePerformanceHistory
UpdatePerformanceHistoryLock ==
    /\ Updater \in DOMAIN threads
    /\ threads[Updater].pc = "lock"
    /\ CanLock(mu.scheduler, Updater)
    /\ mu' = [mu EXCEPT !.scheduler = Lock(mu.scheduler)]
    /\ threads' = [threads EXCEPT ![Updater].pc = "write"]
    /\ replaced' = ""
    /\ UNCHANGED <<agents, perfHistory, resp>>
    /\ UNCHANGED schedRest

\* UpdatePerformanceHistory writes the moving average and returns, its
\* deferred Unlock running
UpdatePerformanceHistoryWrite ==
    /\ Updater \in DOMAIN threads
    /\ threads[Updater].pc = "write"
    /\ LET id == threads[Updater].id
           tokensPerSec == threads[Updater].tokensPerSec
       IN  perfHistory' = MapPut(perfHistory, id,
                                 IF id \in DOMAIN perfHistory
                                 THEN (perfHistory[id] + tokensPerSec) \div 2
                                 ELSE tokensPerSec)
    /\ threads' = MapDelete(threads, {Updater})
    /\ mu' = [mu EXCEPT !.scheduler = Unlock(mu.scheduler)]
    /\ resp' = Reply("OK", EmptyMap)
    /\ replaced' = ""
    /\ UNCHANGED agents
    /\ UNCHANGED schedRest

\* a goroutine inside one of the registry's writing functions and one inside
\* one of its reading functions
Writer == "writer"
Reader == "reader"

\* the variables no step of the registry's goroutines writes
regRest == <<perfHistory, config, stream, tokens, sweeps, uuid, probes>>

\* the assignments of UpdateHealth to the record it found, in program order
UpdateHealthWrites(agent, stats, t) ==
    << <<agent.ID, "FreeVRAMMB", stats.FreeVRAMMB>>,
       <<agent.ID, "FreeRAMMB", stats.FreeRAMMB>>,
       <<agent.ID, "RunningJobs", stats.RunningJobs>>,
       <<agent.ID, "QueuedJobs", stats.QueuedJobs>>,
       <<agent.ID, "CPUPercent", stats.CPUPercent>>,
       <<agent.ID, "RTTMs", stats.RTTMs>>,
       <<agent.ID, "LastHeartbeat", t>> >>
    \o (LET a == [agent EXCEPT !.FreeVRAMMB = stats.FreeVRAMMB,
                               !.CPUPercent = stats.CPUPercent]
        IN  IF HealthStatus(a) # agent.Status
            THEN << <<agent.ID, "Status", HealthStatus(a)>> >>
            ELSE << >>)

\* the assignments of RecordSuccess to the record it found, in program order
RecordSuccessWrites(agent) ==
    << <<agent.ID, "SuccessCount", agent.SuccessCount + 1>>,
       <<agent.ID, "FailureCount", 0>> >>
    \o (IF agent.Status = StatusHalfOpen
           /\ agent.SuccessCount + 1 >= SuccessThreshold
        THEN << <<agent.ID, "Status", StatusHealthy>>,
                <<agent.ID, "SuccessCount", 0>> >>
        ELSE << >>)

\* the assignments of RecordFailure to the record it found, in program order
RecordFailureWrites(agent, t) ==
    << <<agent.ID, "FailureCount", agent.FailureCount + 1>>,
       <<agent.ID, "SuccessCount", 0>> >>
    \o (IF agent.FailureCount + 1 >= FailureThreshold
        THEN << <<agent.ID, "Status", StatusOffline>>,
                <<agent.ID, "NextRetryTime", t + RecoveryTimeout>> >>
        ELSE << >>)

\* the assignments of updateCircuitBreakerState, in program order
updateCircuitBreakerStateWrites(agent, t) ==
    CASE agent.Status = StatusOffline /\ t > agent.NextRetryTime ->
            << <<agent.ID, "Status", StatusHalfOpen>>,
               <<agent.ID, "NextRetryTime", t + HalfOpenTimeout>> >>
      [] agent.Status = StatusHalfOpen /\ t > agent.NextRetryTime ->
            << <<agent.ID, "Status", StatusOffline>>,
               <<agent.ID, "NextRetryTime", t + RecoveryTimeout>> >>
      [] agent.Status = StatusDegraded /\ agent.FreeVRAMMB > 2048
            /\ agent.CPUPercent < 80 ->
            << <<agent.ID, "Status", StatusHealthy>>,
               <<agent.ID, "FailureCount", 0>> >>
      [] OTHER -> << >>

\* the assignments of the first loop of cleanupStaleAgents to the records of
\* ids, taken in one of the orders the map may be ranged in
RECURSIVE VisitWrites(_, _, _)
VisitWrites(m, ids, t) ==
    IF ids = {} THEN << >>
    ELSE LET id == CHOOSE k \in ids : TRUE
             marked == IF IsStale(m[id], t)
                       THEN [m[id] EXCEPT !.Status = StatusOffline]
                       ELSE m[id]
         IN  (IF IsStale(m[id], t)
              THEN << <<id, "Status", StatusOffline>> >> ELSE << >>)
             \o updateCircuitBreakerStateWrites(marked, t)
             \o VisitWrites(m, ids \ {id}, t)

\* the deletions of the second loop of cleanupStaleAgents
RECURSIVE DeleteWrites(_)
DeleteWrites(ids) ==
    IF ids = {} THEN << >>
    ELSE LET id == CHOOSE k \in ids : TRUE
         IN  << <<id, "delete", id>> >> \o DeleteWrites(ids \ {id})

\* what a writing function writes to r.agents and its records, in program
\* order, between its Lock and its Unlock; Register writes to the record it
\* was given before it puts it into the map
RegistryWrites(op, m, t) ==
    CASE op.name = "Register" ->
            << <<op.id, "insert",
                 [NewAgentInfo(op.id, op.req) EXCEPT !.LastHeartbeat = t,
                                                     !.Status = StatusHealthy]>> >>
      [] op.name = "UpdateHealth" ->
            IF op.id \in DOMAIN m
            THEN UpdateHealthWrites(m[op.id], op.stats, t) ELSE << >>
      [] op.name = "RecordSuccess" ->
            IF op.id \in DOMAIN m THEN RecordSuccessWrites(m[op.id]) ELSE << >>
      [] op.name = "RecordFailure" ->
            IF op.id \in DOMAIN m THEN RecordFailureWrites(m[op.id], t) ELSE << >>
      [] op.name = "cleanupStaleAgents" ->
            VisitWrites(m, DOMAIN m, t) \o DeleteWrites(StaleAgents(m, t))

\* one assignment carried out
ApplyWrite(m, w) ==
    IF w[2] = "insert" THEN MapPut(m, w[1], w[3])
    ELSE IF w[2] = "delete" THEN MapDelete(m, {w[1]})
    ELSE [m EXCEPT ![w[1]][w[2]] = w[3]]

\* r.agents after the whole of a writing function
RegistryAfter(op, m, t) ==
    CASE op.name = "Register" -> Register(m, NewAgentInfo(op.id, op.req), t)
      [] op.name = "UpdateHealth" ->
            IF op.id \in DOMAIN m
            THEN [m EXCEPT ![op.id] = ApplyHealth(m[op.id], op.stats, t)] ELSE m
      [] op.name = "RecordSuccess" ->
            IF op.id \in DOMAIN m
            THEN [m EXCEPT ![op.id] = ApplySuccess(m[op.id])] ELSE m
      [] op.name = "RecordFailure" ->
            IF op.id \in DOMAIN m
            THEN [m EXCEPT ![op.id] = ApplyFailure(m[op.id], t)] ELSE m
      [] op.name = "cleanupStaleAgents" -> cleanupStaleAgents(m, t)

\* a writing function calls r.mu.Lock(): new readers wait behind it.  The
\* counters stay within their bounds and the cleanup runs when its ticker fires.
WriterEnter(op) ==
    /\ Writer \notin DOMAIN threads
    /\ CanAnnounce(mu.registry)
    /\ op.name = "RecordSuccess" /\ op.id \in DOMAIN agents
          => agents[op.id].SuccessCount < MaxSuccesses
    /\ op.name = "RecordFailure" /\ op.id \in DOMAIN agents
          => agents[op.id].FailureCount < MaxFailures
    /\ op.name = "cleanupStaleAgents" => now >= nextTick
    /\ nextTick' = IF op.name = "cleanupStaleAgents"
                   THEN nextTick + CleanupInterval ELSE nextTick
    /\ mu' = [mu EXCEPT !.registry = Announce(mu.registry, Writer)]
    /\ threads' = MapPut(threads, Writer, [pc |-> "lock", op |-> op])
    /\ replaced' = ""
    /\ UNCHANGED <<agents, now, resp>>
    /\ UNCHANGED regRest

\* r.mu.Lock() returns to the writing function, which reads the clock
WriterLock ==
    /\ Writer \in DOMAIN threads
    /\ threads[Writer].pc = "lock"
    /\ CanLock(mu.registry, Writer)
    /\ mu' = [mu EXCEPT !.registry = Lock(mu.registry)]
    /\ threads' = [threads EXCEPT ![Writer] =
                      [pc |-> "write", op |-> threads[Writer].op,
                       before |-> agents,
                       after |-> RegistryAfter(threads[Writer].op, agents, now),
                       writes |-> RegistryWrites(threads[Writer].op, agents, now)]]
    /\ replaced' = ""
    /\ UNCHANGED <<agents, now, nextTick, resp>>
    /\ UNCHANGED regRest

\* the writing function carries out its next assignment
WriterWrite ==
    /\ Writer \in DOMAIN threads
    /\ threads[Writer].pc = "write"
    /\ threads[Writer].writes # << >>
    /\ agents' = ApplyWrite(agents, Head(threads[Writer].writes))
    /\ threads' = [threads EXCEPT ![Writer].writes = Tail(threads[Writer].writes)]
    /\ replaced' = ""
    /\ UNCHANGED <<now, nextTick, mu, resp>>
    /\ UNCHANGED regRest

\* the writing function returns and its deferred Unlock runs
WriterUnlock ==
    /\ Writer \in DOMAIN threads
    /\ threads[Writer].pc = "write"
    /\ threads[Writer].writes = << >>
    /\ mu' = [mu EXCEPT !.registry = Unlock(mu.registry)]
    /\ threads' = MapDelete(threads, {Writer})
    /\ resp' = LET op == threads[Writer].op
               IN  IF op.name \in {"UpdateHealth", "RecordSuccess", "RecordFailure"}
                      /\ op.id \notin DOMAIN threads[Writer].before
                   THEN Reply("NotFound", EmptyMap)
                   ELSE Reply("OK", EmptyMap)
    /\ replaced' = ""
    /\ UNCHANGED <<agents, now, nextTick>>
    /\ UNCHANGED regRest

\* a reading function calls r.mu.RLock()
ReaderEnter(op) ==
    /\ Reader \notin DOMAIN threads
    /\ CanRLock(mu.registry)
    /\ mu' = [mu EXCEPT !.registry = RLock(mu.registry)]
    /\ threads' = MapPut(threads, Reader, [pc |-> "copy", op |-> op])
    /\ replaced' = ""
    /\ UNCHANGED <<agents, now, nextTick, resp>>
    /\ UNCHANGED regRest

\* the reading function copies the records it returns, and its deferred
\* RUnlock runs
ReaderCopy ==
    /\ Reader \in DOMAIN threads
    /\ threads[Reader].pc = "copy"
    /\ resp' = LET op == threads[Reader].op
               IN  IF op.name = "GetAgent"
                   THEN IF op.id \in DOMAIN agents
                        THEN Reply("OK", [Agents |-> {agents[op.id]}])
                        ELSE Reply("NotFound", [Agents |-> {}])
                   ELSE IF op.name = "ListHealthyAgents"
                   THEN Reply("OK", [Agents |-> ListHealthyAgents(agents)])
                   ELSE Reply("OK", [Agents |-> ListAllAgents(agents)])
    /\ mu' = [mu EXCEPT !.registry = RUnlock(mu.registry)]
    /\ threads' = MapDelete(threads, {Reader})
    /\ replaced' = ""
    /\ UNCHANGED <<agents, now, nextTick>>
    /\ UNCHANGED regRest

\* the goroutines of the gRPC and the REST handler of an inference request,
\* a cleanupExpiredTokens goroutine that has woken up, and the Go runtime
\* once it has stopped the process
Handlers == {"grpc", "rest"}
Sweeper == "sweeper"
Runtime == "runtime"

\* the runtime has stopped the process with a fatal error
Crashed == Runtime \in DOMAIN threads

\* goroutine g is inside an access to s.tokens; inside a write to it
InMap(g) == threads[g].pc \in {"insert", "range", "delete"}
MapWriter(g) == threads[g].pc \in {"insert", "delete"}

\* the goroutines whose access to s.tokens overlaps the one g begins
Conflicts(g, writes) ==
    {o \in DOMAIN threads \ {g} : InMap(o) /\ (writes \/ MapWriter(o))}

\* the goroutines gs are in a data race on s.tokens
MarkRaced(th, gs) ==
    [g \in DOMAIN th |-> IF g \in gs THEN [th[g] EXCEPT !.raced = TRUE] ELSE th[g]]

\* the variables no step of the token index's goroutines writes
indexRest == <<agents, now, nextTick, perfHistory, config, stream, mu, probes>>

\* a handler of a valid inference request has its agent and its signed token
\* and begins s.tokens[token.ID] = token
HandlerInserts(h, clientId, model) ==
    /\ ~Crashed
    /\ h \notin DOMAIN threads
    /\ uuid + 3 <= 3 * MaxRequests
    /\ \E agent \in SelectAgent(agents, perfHistory, model) :
          threads' = MarkRaced(
              MapPut(threads, h,
                     [pc |-> "insert", raced |-> Conflicts(h, TRUE) # {},
                      agent |-> agent,
                      token |-> generateSessionToken(agent.ID, clientId, model,
                                                     now, 0, uuid)]),
              Conflicts(h, TRUE))
    /\ uuid' = uuid + 3
    /\ replaced' = ""
    /\ UNCHANGED <<tokens, sweeps, resp>>
    /\ UNCHANGED indexRest

\* the map assignment of the handler ends: the token is in the index, or,
\* after a data race, it may be lost or the runtime may have stopped the
\* process; the handler starts the cleanup goroutine and returns
HandlerInserted(h) ==
    /\ h \in DOMAIN threads
    /\ threads[h].pc = "insert"
    /\ \E outcome \in IF threads[h].raced THEN {"stored", "lost", "fatal"}
                       ELSE {"stored"} :
          IF outcome = "fatal"
          THEN /\ threads' = MapPut(EmptyMap, Runtime, [pc |-> "fatal"])
               /\ resp' = Reply("Fatal", [Message |-> "concurrent map writes"])
               /\ UNCHANGED <<tokens, sweeps>>
          ELSE /\ tokens' = IF outcome = "stored"
                            THEN MapPut(tokens, threads[h].token.ID, threads[h].token)
                            ELSE tokens
               /\ sweeps' = Append(sweeps, now + TokenSweepDelay)
               /\ threads' = MapDelete(threads, {h})
               /\ resp' = Reply("OK", [AgentId |-> threads[h].agent.ID,
                                       SessionToken |-> threads[h].token.JWTToken,
                                       ExpiresAt |-> threads[h].token.ExpiresAt])
    /\ replaced' = ""
    /\ UNCHANGED uuid
    /\ UNCHANGED indexRest

\* a cleanupExpiredTokens goroutine wakes from its sleep, reads the clock and
\* begins to range over s.tokens
SweepWakes ==
    /\ ~Crashed
    /\ Sweeper \notin DOMAIN threads
    /\ \E i \in 1..Len(sweeps) :
          /\ now > sweeps[i]
          /\ sweeps' = SubSeq(sweeps, 1, i - 1) \o SubSeq(sweeps, i + 1, Len(sweeps))
    /\ threads' = MarkRaced(
          MapPut(threads, Sweeper,
                 [pc |-> "range", raced |-> Conflicts(Sweeper, FALSE) # {},
                  t |-> now, expired |-> {}]),
          Conflicts(Sweeper, FALSE))
    /\ replaced' = ""
    /\ UNCHANGED <<tokens, uuid, resp>>
    /\ UNCHANGED indexRest

\* the range loop ends with the expired ids, some of which a data race may
\* have hidden, unless the runtime stopped the process; with nothing expired
\* the goroutine ends, else it begins to delete
SweepRanged ==
    /\ Sweeper \in DOMAIN threads
    /\ threads[Sweeper].pc = "range"
    /\ LET past == {id \in DOMAIN tokens :
                      threads[Sweeper].t > tokens[id].ExpiresAt}
       IN  \/ /\ threads[Sweeper].raced
              /\ threads' = MapPut(EmptyMap, Runtime, [pc |-> "fatal"])
              /\ resp' = Reply("Fatal",
                               [Message |-> "concurrent map iteration and map write"])
           \/ \E expired \in IF threads[Sweeper].raced THEN SUBSET past ELSE {past} :
                 IF expired = {}
                 THEN /\ threads' = MapDelete(threads, {Sweeper})
                      /\ resp' = Reply("OK", EmptyMap)
                 ELSE /\ threads' = MarkRaced(
                            [threads EXCEPT ![Sweeper] =
                               [pc |-> "delete",
                                raced |-> Conflicts(Sweeper, TRUE) # {},
                                t |-> threads[Sweeper].t, expired |-> expired]],
                            Conflicts(Sweeper, TRUE))
                      /\ UNCHANGED resp
    /\ replaced' = ""
    /\ UNCHANGED <<tokens, sweeps, uuid>>
    /\ UNCHANGED indexRest

\* the deletions end, unless a data race made the runtime stop the process
SweepDeleted ==
    /\ Sweeper \in DOMAIN threads
    /\ threads[Sweeper].pc = "delete"
    /\ \/ /\ threads[Sweeper].raced
          /\ threads' = MapPut(EmptyMap, Runtime, [pc |-> "fatal"])
          /\ resp' = Reply("Fatal", [Message |-> "concurrent map writes"])
          /\ UNCHANGED tokens
       \/ /\ tokens' = MapDelete(tokens, threads[Sweeper].expired)
          /\ threads' = MapDelete(threads, {Sweeper})
          /\ resp' = Reply("OK", [expired_tokens |->
                                    Cardinality(threads[Sweeper].expired)])
    /\ replaced' = ""
    /\ UNCHANGED <<sweeps, uuid>>
    /\ UNCHANGED indexRest

\* the goroutine of a caller of the registry's read functions
Caller == "caller"

\* what a caller holds after GetAgent, ListHealthyAgents or ListAllAgents gave it
\* agentCopy := *agent: the scalar fields are the caller's own, while the
\* SupportedModels slice and the Capabilities map of the copy are the backing
\* array and the map of the registry's record
Holds(agent) == [pc |-> "holds", id |-> agent.ID, copy |-> agent]

\* a caller calls InMemoryRegistry.GetAgent and keeps the record returned
CallerGetAgent(id) ==
    /\ threads = EmptyMap
    /\ id \in DOMAIN agents
    /\ threads' = MapPut(threads, Caller, Holds(agents[id]))
    /\ resp' = Reply("OK", [Agent |-> agents[id]])
    /\ replaced' = ""
    /\ UNCHANGED <<agents, now, nextTick, perfHistory, config, stream, mu, tokens,
                   sweeps, uuid, probes>>

\* a caller calls InMemoryRegistry.ListHealthyAgents and keeps one record of
\* the list returned
CallerListHealthyAgents ==
    /\ threads = EmptyMap
    /\ \E agent \in ListHealthyAgents(agents) :
          threads' = MapPut(threads, Caller, Holds(agent))
    /\ resp' = Reply("OK", [Agents |-> ListHealthyAgents(agents)])
    /\ replaced' = ""
    /\ UNCHANGED <<agents, now, nextTick, perfHistory, config, stream, mu, tokens,
                   sweeps, uuid, probes>>

\* a caller calls InMemoryRegistry.ListAllAgents and keeps one record of the
\* list returned
CallerListAllAgents ==
    /\ threads = EmptyMap
    /\ \E agent \in ListAllAgents(agents) :
          threads' = MapPut(threads, Caller, Holds(agent))
    /\ resp' = Reply("OK", [Agents |-> ListAllAgents(agents)])
    /\ replaced' = ""
    /\ UNCHANGED <<agents, now, nextTick, perfHistory, config, stream, mu, tokens,
                   sweeps, uuid, probes>>

\* the caller assigns a scalar field of the record it holds: the field of its
\* own struct value
CallerSetsMaxJobs(n) ==
    /\ Caller \in DOMAIN threads
    /\ threads' = [threads EXCEPT ![Caller].copy.MaxJobs = n]
    /\ replaced' = ""
    /\ UNCHANGED <<agents, now, nextTick, perfHistory, config, stream, mu, tokens,
                   sweeps, uuid, resp, probes>>

\* the caller assigns an element of SupportedModels of the record it holds:
\* the element of the backing array, which the registry's record reads too
CallerSetsModel(i, model) ==
    /\ Caller \in DOMAIN threads
    /\ i \in 1..Len(threads[Caller].copy.SupportedModels)
    /\ threads' = [threads EXCEPT ![Caller].copy.SupportedModels[i] = model]
    /\ agents' = [agents EXCEPT ![threads[Caller].id].SupportedModels[i] = model]
    /\ replaced' = ""
    /\ UNCHANGED <<now, nextTick, perfHistory, config, stream, mu, tokens, sweeps,
                   uuid, resp, probes>>

\* the caller assigns an entry of Capabilities of the record it holds: the
\* entry of the map, which the registry's record reads too
CallerSetsCapability(key, value) ==
    /\ Caller \in DOMAIN threads
    /\ key \in DOMAIN threads[Caller].copy.Capabilities
    /\ threads' = [threads EXCEPT ![Caller].copy.Capabilities[key] = value]
    /\ agents' = [agents EXCEPT ![threads[Caller].id].Capabilities[key] = value]
    /\ replaced' = ""
    /\ UNCHANGED <<now, nextTick, perfHistory, config, stream, mu, tokens, sweeps,
                   uuid, resp, probes>>

\* the caller drops the record it holds
CallerReturns ==
    /\ Caller \in DOMAIN threads
    /\ threads' = EmptyMap
    /\ replaced' = ""
    /\ UNCHANGED <<agents, now, nextTick, perfHistory, config, stream, mu, tokens,
                   sweeps, uuid, resp, probes>>

\* a JSON object with the member called name set to value
WithMember(payload, name, value) ==
    [i \in 1..Len(payload) |->
        IF payload[i][1] = name THEN <<name, value>> ELSE payload[i]]

\* what somebody without the private key can make of a token: its life
\* extended, another agent named, the whole signed again with an own key, and
\* the signature dropped under the algorithm "none"
Forgeries(tokenString) ==
    {[tokenString EXCEPT !.payload =
         WithMember(tokenString.payload, "exp",
                    Member(tokenString.payload, "exp", ZeroTime) + 2 * TokenTTL)],
     [tokenString EXCEPT !.payload =
         WithMember(tokenString.payload, "agent_id", "a9")],
     SignedString(tokenString.header, tokenString.payload, OtherKey),
     [header |-> [alg |-> "none", typ |-> "JWT"], payload |-> tokenString.payload,
      signature |-> << >>]}

\* the tokens the coordinator has signed and not yet swept
MintedTokens == {tokens[id].JWTToken : id \in DOMAIN tokens}

\* the token strings a caller may present
PresentedTokens == MintedTokens \cup UNION {Forgeries(t) : t \in MintedTokens}

\* CoordinatorServer.ValidateToken
ServerValidateToken(tokenString) ==
    /\ resp' = IF ValidateToken(tokenString, now).err = ""
               THEN Reply("OK", [Claims |-> ValidateToken(tokenString, now).claims])
               ELSE Reply("Error", [Message |-> ValidateToken(tokenString, now).err])
    /\ replaced' = ""
    /\ UNCHANGED <<agents, now, nextTick, perfHistory, config, fine, tokens, sweeps,
                   uuid, probes>>

\* a cleanupExpiredTokens goroutine wakes up and sweeps the token index.
\* time.Sleep pauses for at least a minute and begins after the clock read
\* of generateSessionToken, so the sweeper reads a time later than that read
\* plus a minute
SweepTokens ==
    \E i \in 1..Len(sweeps) :
        /\ now > sweeps[i]
        /\ tokens' = cleanupExpiredTokens(tokens, now)
        /\ sweeps' = SubSeq(sweeps, 1, i - 1) \o SubSeq(sweeps, i + 1, Len(sweeps))
        /\ resp' = Reply("OK", EmptyMap)
        /\ replaced' = ""
        /\ UNCHANGED <<agents, now, nextTick, perfHistory, config, fine, uuid, probes>>

\* the clock moves on; the cleanup ticker fires on time
Advance ==
    \E d \in ClockSteps :
        /\ now + d <= nextTick
        /\ now + d <= MaxTicks * CleanupInterval
        /\ now' = now + d
        /\ resp' = Reply("OK", EmptyMap)
        /\ replaced' = ""
        /\ UNCHANGED <<agents, nextTick, perfHistory, config, fine, tokens, sweeps, uuid, probes>>

ClientIds == {"c1"}
Prompts == {"hello"}

\* one agent through its whole life cycle, with inference requests
Next ==
    \/ \E id \in AgentIds, req \in Registrations : RegisterAgent(id, req)
    \/ \E id \in AgentIds : Deregister(id)
    \/ \E id \in AgentIds, stats \in Heartbeats : UpdateHealth(id, stats)
    \/ \E id \in AgentIds : RecordSuccess(id)
    \/ \E id \in AgentIds : RecordFailure(id)
    \/ CleanupTick
    \/ \E c \in ClientIds, m \in Models, p \in Prompts : RequestInference(c, m, p)
    \/ SweepTokens
    \/ Advance

Spec == Init /\ [][Next]_vars

\* one agent through its whole life cycle, seen from the registry alone
NextRegistry ==
    \/ \E id \in AgentIds, req \in Registrations : RegisterAgent(id, req)
    \/ \E id \in AgentIds : Deregister(id)
    \/ \E id \in AgentIds, stats \in Heartbeats : UpdateHealth(id, stats)
    \/ \E id \in AgentIds : RecordSuccess(id)
    \/ \E id \in AgentIds : RecordFailure(id)
    \/ CleanupTick
    \/ Advance

SpecRegistry == Init /\ [][NextRegistry]_vars

\* two agents registering, reporting health and failing within one clock
\* reading, with inference requests
NextSched ==
    \/ \E id \in AgentPair, req \in Registrations : RegisterAgent(id, req)
    \/ \E id \in AgentPair, stats \in Heartbeats : UpdateHealth(id, stats)
    \/ \E id \in AgentPair : RecordFailure(id)
    \/ \E c \in ClientIds, m \in Models, p \in Prompts : RequestInference(c, m, p)

SpecSched == Init /\ [][NextSched]_vars

\* one agent on a small or a mid-size card reporting heartbeats in and out of
\* range, with successes and failures, within one clock reading
NextHealth ==
    \/ \E id \in AgentIds, req \in HealthRegistrations : RegisterAgent(id, req)
    \/ \E id \in AgentIds, stats \in HealthHeartbeats : UpdateHealth(id, stats)
    \/ \E id \in AgentIds : RecordSuccess(id)
    \/ \E id \in AgentIds : RecordFailure(id)

SpecHealth == Init /\ [][NextHealth]_vars

\* two agents of unequal size and load, one of them possibly Degraded, with
\* inference requests, within one clock reading
NextRank ==
    \/ \E id \in AgentPair, req \in Registrations : RegisterAgent(id, req)
    \/ \E id \in AgentPair, stats \in RankHeartbeats : UpdateHealth(id, stats)
    \/ \E c \in ClientIds, m \in Models, p \in Prompts : RequestInference(c, m, p)

SpecRank == Init /\ [][NextRank]_vars

\* registrations with and without the required fields, and the registry
\* operations on ids that are and are not registered
NextApi ==
    \/ \E id \in ApiAgentIds, req \in ApiRegistrations : RegisterAgent(id, req)
    \/ \E id \in ApiAgentIds : Deregister(id)
    \/ \E id \in ApiAgentIds, stats \in ApiHeartbeats : UpdateHealth(id, stats)
    \/ \E id \in ApiAgentIds : GetAgent(id)
    \/ \E id \in ApiAgentIds : GetCircuitState(id)
    \/ \E id \in ApiAgentIds : RecordSuccess(id)
    \/ \E id \in ApiAgentIds : RecordFailure(id)
    \/ CleanupTick
    \/ Advance

SpecApi == Init /\ [][NextApi]_vars

\* well-formed and malformed inference requests over gRPC and REST, while one
\* agent registers, reports, fails and leaves, within one clock reading
NextInference ==
    \/ \E id \in AgentIds : RegisterAgent(id, RegSmall)
    \/ \E id \in AgentIds : Deregister(id)
    \/ \E id \in AgentIds : UpdateHealth(id, HbBusy)
    \/ \E id \in AgentIds : RecordFailure(id)
    \/ \E c \in ApiClientIds, m \in ApiModels, p \in ApiPrompts :
            RequestInference(c, m, p)
    \/ \E c \in ApiClientIds, m \in ApiModels, p \in ApiPrompts :
            handleInferenceRequest(c, m, p)

SpecInference == Init /\ [][NextInference]_vars

\* the coordinator started under each TOKEN_TTL setting, with one agent and
\* inference requests over the life of a token
InitConfig == \E env \in TokenTTLEnvs : Started(env)

NextConfig ==
    \/ \E id \in AgentIds : RegisterAgent(id, RegSmall)
    \/ \E id \in AgentIds : UpdateHealth(id, HbIdle)
    \/ \E c \in ClientIds, m \in Models, p \in Prompts : RequestInference(c, m, p)
    \/ CleanupTick
    \/ SweepTokens
    \/ Advance

SpecConfig == InitConfig /\ [][NextConfig]_vars

\* tokens minted for one agent and presented for validation, genuine and
\* forged, before, during and after their life
NextToken ==
    \/ \E id \in AgentIds : RegisterAgent(id, RegSmall)
    \/ \E c \in ClientIds, m \in Models, p \in Prompts : RequestInference(c, m, p)
    \/ \E tokenString \in PresentedTokens : ServerValidateToken(tokenString)
    \/ CleanupTick
    \/ Advance

SpecToken == Init /\ [][NextToken]_vars

\* one ReportHealth stream carrying heartbeats of an agent that registers and
\* leaves while the stream is open, within one clock reading
NextStream ==
    \/ \E id \in AgentIds : RegisterAgent(id, RegSmall)
    \/ \E id \in AgentIds : Deregister(id)
    \/ OpenStream
    \/ \E id \in AgentIds, stats \in {HbIdle, HbHot} : AgentSends(id, stats)
    \/ AgentCloses
    \/ TransportBreaks
    \/ ReportHealthRecv
    \/ ReportHealthSend

SpecStream == Init /\ [][NextStream]_vars

\* a caller of the registry's read functions that writes to the record it was
\* given, while heartbeats arrive; agents register while no caller holds a
\* record of the registry
NextCopy ==
    \/ \E id \in AgentIds, req \in Registrations :
          threads = EmptyMap /\ RegisterAgent(id, req)
    \/ \E id \in AgentIds, stats \in {HbIdle, HbHot} : UpdateHealth(id, stats)
    \/ \E id \in AgentIds : CallerGetAgent(id)
    \/ CallerListHealthyAgents
    \/ CallerListAllAgents
    \/ \E n \in {0} : CallerSetsMaxJobs(n)
    \/ \E i \in {1}, model \in {ModelLlama} : CallerSetsModel(i, model)
    \/ \E key \in {"gpu"}, value \in {"none"} : CallerSetsCapability(key, value)
    \/ CallerReturns

SpecCopy == Init /\ [][NextCopy]_vars

\* the VRAM estimator applied to model names of every length, next to an agent
\* that registers
NextEstimate ==
    \/ \E id \in AgentIds, req \in Registrations : RegisterAgent(id, req)
    \/ \E model \in ModelNames : EstimateVRAM(model)

SpecEstimate == Init /\ [][NextEstimate]_vars

\* one goroutine selecting agents and one reporting throughputs on the same
\* scheduler, step by step, while agents register and report heartbeats
NextLock ==
    \/ \E id \in AgentIds, req \in Registrations : RegisterAgent(id, req)
    \/ \E id \in AgentIds, stats \in {HbIdle, HbBusy} : UpdateHealth(id, stats)
    \/ \E model \in Models : SelectAgentEnter(model)
    \/ SelectAgentList
    \/ calculateMCDAScoreRLock
    \/ calculateMCDAScoreRUnlock
    \/ SelectAgentLoopEnd
    \/ SelectAgentReturn
    \/ \E id \in AgentIds, tokensPerSec \in {50} :
          UpdatePerformanceHistoryEnter(id, tokensPerSec)
    \/ UpdatePerformanceHistoryLock
    \/ UpdatePerformanceHistoryWrite

SpecLock == Init /\ [][NextLock]_vars

\* the calls of the registry's writing and reading functions
WriterOps ==
    {[name |-> "Register", id |-> id, req |-> RegSmall] : id \in AgentIds}
    \cup {[name |-> "UpdateHealth", id |-> id, stats |-> stats] :
             id \in AgentIds, stats \in {HbIdle, HbHot}}
    \cup {[name |-> "RecordSuccess", id |-> id] : id \in AgentIds}
    \cup {[name |-> "RecordFailure", id |-> id] : id \in AgentIds}
    \cup {[name |-> "cleanupStaleAgents"]}
ReaderOps ==
    {[name |-> "GetAgent", id |-> id] : id \in AgentIds}
    \cup {[name |-> "ListHealthyAgents"], [name |-> "ListAllAgents"]}

\* one goroutine writing to the registry and one reading it, step by step,
\* while the clock moves
NextRace ==
    \/ \E op \in WriterOps : WriterEnter(op)
    \/ WriterLock
    \/ WriterWrite
    \/ WriterUnlock
    \/ \E op \in ReaderOps : ReaderEnter(op)
    \/ ReaderCopy
    \/ Advance

SpecRace == Init /\ [][NextRace]_vars

\* the gRPC and the REST handler serving inference requests at the same time
\* as the cleanup goroutines they started, step by step, while the process runs
NextIndex ==
    \/ \E id \in AgentIds : ~Crashed /\ RegisterAgent(id, RegSmall)
    \/ \E id \in AgentIds : ~Crashed /\ UpdateHealth(id, HbIdle)
    \/ \E h \in Handlers, c \in ClientIds : HandlerInserts(h, c, ModelLlama)
    \/ \E h \in Handlers : HandlerInserted(h)
    \/ SweepWakes
    \/ SweepRanged
    \/ SweepDeleted
    \/ ~Crashed /\ CleanupTick
    \/ ~Crashed /\ Advance

SpecIndex == Init /\ [][NextIndex]_vars

(***************************************************************************)
(* Properties.                                                             *)
(***************************************************************************)

\* the last operation was a RequestInference that returned an agent
InferenceOK == resp.code = "OK" /\ "JobId" \in DOMAIN resp.results

\* the last operation was a heartbeat that the registry applied
HeartbeatOK == resp.code = "OK" /\ "Status" \in DOMAIN resp.results

\* the four admission conditions of the scheduler for agent record a
Admissible(a, model) ==
    /\ a.Status # StatusOffline
    /\ a.FreeVRAMMB >= estimateModelVRAMRequirement(model)
    /\ a.RunningJobs < a.MaxJobs
    /\ \/ Len(a.SupportedModels) = 0
       \/ \E i \in 1..Len(a.SupportedModels) : a.SupportedModels[i] = model

\* C1 as stated: every Healthy record has failure_count = 0.
C1_HealthyHasNoFailures ==
    \A id \in DOMAIN agents :
        agents[id].Status = StatusHealthy => agents[id].FailureCount = 0

\* C1 as amended: every Healthy record has 0 <= failure_count < failure_threshold.
C1_HealthyBelowThreshold ==
    \A id \in DOMAIN agents :
        agents[id].Status = StatusHealthy
            => agents[id].FailureCount \in 0..(FailureThreshold - 1)

C1_Witness ==
    \E id \in DOMAIN agents :
        /\ agents[id].Status = StatusHealthy
        /\ agents[id].FailureCount = FailureThreshold - 1

\* C2: SelectAgent never returns an agent that is Offline in the snapshot, for
\* any model; and when every registered agent has been opened (its failure
\* count reached failure_threshold, or it is Offline), RequestInference does
\* not succeed: it returns Unavailable.
C2_OfflineNeverSelected ==
    /\ \A m \in Models : \A a \in SelectAgent(agents, perfHistory, m) :
            a.Status # StatusOffline
    /\ InferenceOK => agents[resp.results.AgentId].Status # StatusOffline
    /\ (/\ DOMAIN agents # {}
        /\ \A id \in DOMAIN agents :
              \/ agents[id].FailureCount >= FailureThreshold
              \/ agents[id].Status = StatusOffline)
       => ~InferenceOK

C2_Witness ==
    /\ resp.code = "Unavailable"
    /\ DOMAIN agents = {"a1"}
    /\ agents["a1"].Status = StatusOffline
    /\ agents["a1"].FailureCount = FailureThreshold

\* C3 as stated: when the only registered agent is Degraded or HalfOpen and
\* meets the VRAM, job and model conditions for the requested model,
\* RequestInference returns that agent.
C3_DegradedHalfOpenAdmitted ==
    [][\A c \in ClientIds, m \in Models, p \in Prompts :
          (/\ RequestInference(c, m, p)
           /\ \E id \in DOMAIN agents :
                /\ DOMAIN agents = {id}
                /\ agents[id].Status \in {StatusDegraded, StatusHalfOpen}
                /\ Admissible(agents[id], m))
          => (resp'.code = "OK" /\ resp'.results.AgentId \in DOMAIN agents)]_vars

\* C4 as stated: RequestInference returns an agent that satisfies the four
\* admission conditions in the snapshot, or fails.
C4_AdmittedOrFails ==
    [][\A c \in ClientIds, m \in Models, p \in Prompts :
          RequestInference(c, m, p)
          => \/ resp'.code = "Unavailable"
             \/ /\ resp'.code = "OK"
                /\ Admissible(agents[resp'.results.AgentId], m)]_vars

\* C4 as amended: RequestInference returns an agent that satisfies the four
\* admission conditions, or, when no Healthy agent satisfies them, a Healthy
\* agent that does not (the fallback), or fails.
C4_AdmittedOrFallback ==
    [][\A c \in ClientIds, m \in Models, p \in Prompts :
          RequestInference(c, m, p)
          => \/ resp'.code = "Unavailable"
             \/ /\ resp'.code = "OK"
                /\ \/ Admissible(agents[resp'.results.AgentId], m)
                   \/ /\ agents[resp'.results.AgentId].Status = StatusHealthy
                      /\ \A id \in DOMAIN agents :
                            agents[id].Status = StatusHealthy
                                => ~Admissible(agents[id], m)]_vars

C4_Witness ==
    /\ InferenceOK
    /\ agents[resp.results.AgentId].Status = StatusHealthy
    /\ ~Admissible(agents[resp.results.AgentId],
                   DecodeClaims(resp.results.SessionToken.payload).model)

\* C5: each RecordFailure adds one to failure_count; the failure that brings
\* the count to failure_threshold makes the record Offline with
\* next_retry_time = now + recovery_timeout, and a failure that leaves the
\* count below failure_threshold changes neither status nor next_retry_time.
C5_OpensAtThreshold ==
    [][\A id \in AgentIds :
          (RecordFailure(id) /\ id \in DOMAIN agents)
          => /\ agents'[id].FailureCount = agents[id].FailureCount + 1
             /\ agents[id].FailureCount + 1 < FailureThreshold
                  => /\ agents'[id].Status = agents[id].Status
                     /\ agents'[id].NextRetryTime = agents[id].NextRetryTime
             /\ agents[id].FailureCount + 1 = FailureThreshold
                  => /\ agents'[id].Status = StatusOffline
                     /\ agents'[id].NextRetryTime = now + RecoveryTimeout]_vars

C5_Witness ==
    /\ "a1" \in DOMAIN agents
    /\ agents["a1"].Status = StatusOffline
    /\ agents["a1"].FailureCount = FailureThreshold
    /\ agents["a1"].NextRetryTime = now + RecoveryTimeout

\* C6 as stated: one RecordFailure on a HalfOpen record makes it Offline with
\* next_retry_time = now + recovery_timeout, whatever its counters were.
C6_HalfOpenFailureReopens ==
    [][\A id \in AgentIds :
          (/\ RecordFailure(id)
           /\ id \in DOMAIN agents
           /\ agents[id].Status = StatusHalfOpen)
          => /\ agents'[id].Status = StatusOffline
             /\ agents'[id].NextRetryTime = now + RecoveryTimeout]_vars

\* C7 as stated: a record that a cleanup tick half-opened is HalfOpen, and once
\* it has then received success_threshold RecordSuccess calls, with no failure
\* and no half-open timeout in between, it is Healthy with failure_count = 0
\* and success_count = 0.
C7_ProbesCloseCircuit ==
    \A id \in DOMAIN probes :
        /\ probes[id] = 0 => agents[id].Status = StatusHalfOpen
        /\ probes[id] = SuccessThreshold
             => /\ agents[id].Status = StatusHealthy
                /\ agents[id].FailureCount = 0
                /\ agents[id].SuccessCount = 0

\* C8: a record whose heartbeat was older than heartbeat_timeout when the last
\* cleanup tick ran is gone; hence no registered record has a heartbeat older
\* than heartbeat_timeout + cleanup_interval, and with no agent registered
\* RequestInference does not succeed.
C8_HeartbeatDeath ==
    /\ \A id \in DOMAIN agents :
          (nextTick - CleanupInterval) - agents[id].LastHeartbeat <= HeartbeatTimeout
    /\ \A id \in DOMAIN agents :
          now - agents[id].LastHeartbeat <= HeartbeatTimeout + CleanupInterval
    /\ DOMAIN agents = {} => ~InferenceOK

C8_Witness ==
    /\ "removed_count" \in DOMAIN resp.results
    /\ DOMAIN agents = {}

\* C9 as stated: a cleanup tick at a time now >= next_retry_time moves an
\* Offline record with a fresh heartbeat to HalfOpen, with
\* next_retry_time = now + half_open_timeout.
C9_HalfOpensAtRetryTime ==
    [][CleanupTick
       => \A id \in DOMAIN agents :
             (/\ agents[id].Status = StatusOffline
              /\ now - agents[id].LastHeartbeat <= HeartbeatTimeout
              /\ now >= agents[id].NextRetryTime)
             => /\ id \in DOMAIN agents'
                /\ agents'[id].Status = StatusHalfOpen
                /\ agents'[id].NextRetryTime = now + HalfOpenTimeout]_vars

\* C9 as amended: a cleanup tick at a time now > next_retry_time moves an
\* Offline record with a fresh heartbeat to HalfOpen, with
\* next_retry_time = now + half_open_timeout; a tick at now <= next_retry_time
\* (the boundary included) leaves the record as it is.
C9_HalfOpensAfterRetryTime ==
    [][CleanupTick
       => \A id \in DOMAIN agents :
             (/\ agents[id].Status = StatusOffline
              /\ now - agents[id].LastHeartbeat <= HeartbeatTimeout)
             => /\ id \in DOMAIN agents'
                /\ now > agents[id].NextRetryTime
                     => /\ agents'[id].Status = StatusHalfOpen
                        /\ agents'[id].NextRetryTime = now + HalfOpenTimeout
                /\ now <= agents[id].NextRetryTime
                     => agents'[id] = agents[id]]_vars

C9_Witness ==
    /\ "a1" \in DOMAIN agents
    /\ agents["a1"].Status = StatusHalfOpen
    /\ agents["a1"].NextRetryTime = now + HalfOpenTimeout
    /\ nextTick = now + CleanupInterval

\* C10: a heartbeat applied to an Offline or HalfOpen record replaces the six
\* heartbeat metrics and last_heartbeat and leaves every other field, among
\* them status, failure_count, success_count and next_retry_time, as it was.
C10_HeartbeatKeepsCircuit ==
    [][\A id \in AgentIds, stats \in Heartbeats :
          (/\ id \in DOMAIN agents
           /\ agents[id].Status \in {StatusOffline, StatusHalfOpen}
           /\ UpdateHealth(id, stats))
          => agents'[id] = [agents[id] EXCEPT !.FreeVRAMMB = stats.FreeVRAMMB,
                                              !.FreeRAMMB = stats.FreeRAMMB,
                                              !.RunningJobs = stats.RunningJobs,
                                              !.QueuedJobs = stats.QueuedJobs,
                                              !.CPUPercent = stats.CPUPercent,
                                              !.RTTMs = stats.RTTMs,
                                              !.LastHeartbeat = now]]_vars

C10_Witness ==
    /\ HeartbeatOK
    /\ agents[resp.results.AgentId].Status \in {StatusOffline, StatusHalfOpen}
    /\ agents[resp.results.AgentId].LastHeartbeat = now
    /\ agents[resp.results.AgentId].CPUPercent = HbHot.CPUPercent

\* the degradation condition of the heartbeat stats for a card of total MB:
\* vram_util > 0.9 or cpu_percent > 90 or free_vram < 512
Degrading(total, stats) ==
    \/ 10 * (total - stats.FreeVRAMMB) > 9 * total
    \/ stats.CPUPercent > 90
    \/ stats.FreeVRAMMB < 512

\* the recovery condition: vram_util < 0.7 and cpu_percent < 70
Recovering(total, stats) ==
    /\ 10 * (total - stats.FreeVRAMMB) < 7 * total
    /\ stats.CPUPercent < 70

\* C11 as stated: a heartbeat moves a Healthy record to Degraded exactly when
\* it meets the degradation condition, and a Degraded record to Healthy
\* exactly when it meets the recovery condition; otherwise the status stays.
C11_HeartbeatTransitions ==
    [][\A id \in AgentIds, stats \in HealthHeartbeats :
          (UpdateHealth(id, stats) /\ id \in DOMAIN agents)
          => /\ agents[id].Status = StatusHealthy
                  => agents'[id].Status =
                        IF Degrading(agents[id].TotalVRAMMB, stats)
                        THEN StatusDegraded ELSE StatusHealthy
             /\ agents[id].Status = StatusDegraded
                  => agents'[id].Status =
                        IF Recovering(agents[id].TotalVRAMMB, stats)
                        THEN StatusHealthy ELSE StatusDegraded]_vars

\* C11 as amended: a heartbeat moves a Healthy record to Degraded exactly when
\* it meets the degradation condition, and a Degraded record to Healthy
\* exactly when it meets the recovery condition and does not meet the
\* degradation condition (free_vram >= 512); otherwise the status stays.
C11_HeartbeatTransitionsGuarded ==
    [][\A id \in AgentIds, stats \in HealthHeartbeats :
          (UpdateHealth(id, stats) /\ id \in DOMAIN agents)
          => /\ agents[id].Status = StatusHealthy
                  => agents'[id].Status =
                        IF Degrading(agents[id].TotalVRAMMB, stats)
                        THEN StatusDegraded ELSE StatusHealthy
             /\ agents[id].Status = StatusDegraded
                  => agents'[id].Status =
                        IF Recovering(agents[id].TotalVRAMMB, stats)
                           /\ ~Degrading(agents[id].TotalVRAMMB, stats)
                        THEN StatusHealthy ELSE StatusDegraded
             /\ agents[id].Status \notin {StatusHealthy, StatusDegraded}
                  => agents'[id].Status = agents[id].Status]_vars

C11_Witness ==
    /\ HeartbeatOK
    /\ agents[resp.results.AgentId].Status = StatusDegraded
    /\ agents[resp.results.AgentId].FreeVRAMMB < 512
    /\ 10 * (agents[resp.results.AgentId].TotalVRAMMB
             - agents[resp.results.AgentId].FreeVRAMMB)
         < 7 * agents[resp.results.AgentId].TotalVRAMMB
    /\ agents[resp.results.AgentId].CPUPercent < 70

\* C12 as stated: after a heartbeat was applied, the stored record has
\* 0 <= free_vram_mb <= total_vram_mb and 0 <= running_jobs <= max_jobs.
C12_MetricsInRange ==
    HeartbeatOK
    => /\ agents[resp.results.AgentId].FreeVRAMMB
            \in 0..agents[resp.results.AgentId].TotalVRAMMB
       /\ agents[resp.results.AgentId].RunningJobs
            \in 0..agents[resp.results.AgentId].MaxJobs

\* C13: RegisterAgent for an id that is already registered leaves the registry
\* with the same ids and, under that id, a record built from the new payload:
\* Healthy, failure_count 0, success_count 0, free_vram = total_vram and
\* free_ram = total_ram, whatever the status and counters of the old record.
C13_ReRegistrationReplaces ==
    [][\A id \in AgentIds, req \in Registrations :
          (id \in DOMAIN agents /\ RegisterAgent(id, req))
          => /\ DOMAIN agents' = DOMAIN agents
             /\ agents'[id].ID = id
             /\ agents'[id].Status = StatusHealthy
             /\ agents'[id].FailureCount = 0
             /\ agents'[id].SuccessCount = 0
             /\ agents'[id].TotalVRAMMB = req.TotalVramMb
             /\ agents'[id].FreeVRAMMB = req.TotalVramMb
             /\ agents'[id].TotalRAMMB = req.TotalRamMb
             /\ agents'[id].FreeRAMMB = req.TotalRamMb
             /\ agents'[id].LastHeartbeat = now]_vars

C13_Witness ==
    /\ replaced \in {StatusOffline, StatusHalfOpen}
    /\ agents["a1"].Status = StatusHealthy
    /\ agents["a1"].FailureCount = 0
    /\ agents["a1"].FreeVRAMMB = agents["a1"].TotalVRAMMB

\* C14: Deregister, UpdateHealth, GetAgent, RecordSuccess, RecordFailure and
\* GetCircuitState on an id that is not in the registry return a not-found
\* error and leave the registry as it is; a heartbeat creates no record.
C14_UnknownIdNotFound ==
    [][\A id \in ApiAgentIds :
          (/\ id \notin DOMAIN agents
           /\ \/ Deregister(id)
              \/ \E stats \in ApiHeartbeats : UpdateHealth(id, stats)
              \/ GetAgent(id)
              \/ RecordSuccess(id)
              \/ RecordFailure(id)
              \/ GetCircuitState(id))
          => /\ resp'.code = "NotFound"
             /\ agents' = agents]_vars

C14_Witness ==
    /\ resp.code = "NotFound"
    /\ "Status" \in DOMAIN resp.results
    /\ resp.results.AgentId = "a1"
    /\ "a1" \notin DOMAIN agents
    /\ nextTick > CleanupInterval

\* C15: RegisterAgent with an empty agent_id or an empty endpoint returns
\* InvalidArgument and leaves the registry as it is.
C15_RegistrationValidated ==
    [][\A id \in ApiAgentIds, req \in ApiRegistrations :
          (RegisterAgent(id, req) /\ (id = "" \/ req.Endpoint = ""))
          => /\ resp'.code = "InvalidArgument"
             /\ agents' = agents]_vars

C15_Witness ==
    /\ resp.code = "InvalidArgument"
    /\ resp.results.Message = "endpoint is required"
    /\ "a1" \in DOMAIN agents
    /\ agents["a1"].Endpoint # ""

\* the score by which the scheduler specification ranks record a: the weighted
\* sum of the four sub-scores, halved for a Degraded record
RankScore(a) ==
    IF a.Status = StatusDegraded
    THEN HalveScore(calculateMCDAScore(a, perfHistory))
    ELSE calculateMCDAScore(a, perfHistory)

\* the position of an agent id in ascending order of ids
IdRank(id) == IF id = "a1" THEN 1 ELSE 2

\* C16 as stated: when RequestInference returns an agent, no registered agent
\* that meets the four admission conditions for the model has a greater
\* ranking score (Degraded halved) than the returned agent.
C16_SelectedIsBest ==
    [][\A c \in ClientIds, m \in Models, p \in Prompts :
          (RequestInference(c, m, p) /\ resp'.code = "OK")
          => \A id \in DOMAIN agents :
                Admissible(agents[id], m)
                => ~ScoreGreater(RankScore(agents[id]),
                                 RankScore(agents[resp'.results.AgentId]))]_vars

\* C17 as stated: among the candidates that share the maximal score,
\* RequestInference returns the one with the smallest agent id.
C17_TieBrokenById ==
    [][\A c \in ClientIds, m \in Models, p \in Prompts :
          (RequestInference(c, m, p) /\ resp'.code = "OK")
          => \A a \in SelectAgent(agents, perfHistory, m) :
                IdRank(resp'.results.AgentId) <= IdRank(a.ID)]_vars

\* C18 as stated: with a Degraded agent d and a Healthy agent h registered,
\* both meeting the admission conditions for the model, RequestInference
\* returns h when score(h) > 0.5 * score(d) and d when 0.5 * score(d) > score(h).
C18_DegradedRankedAtHalf ==
    [][\A c \in ClientIds, m \in Models, p \in Prompts :
          RequestInference(c, m, p)
          => \A d \in DOMAIN agents, h \in DOMAIN agents :
                (/\ DOMAIN agents = {d, h}
                 /\ agents[d].Status = StatusDegraded
                 /\ agents[h].Status = StatusHealthy
                 /\ Admissible(agents[d], m)
                 /\ Admissible(agents[h], m))
                => /\ ScoreGreater(RankScore(agents[h]), RankScore(agents[d]))
                        => (resp'.code = "OK" /\ resp'.results.AgentId = h)
                   /\ ScoreGreater(RankScore(agents[d]), RankScore(agents[h]))
                        => (resp'.code = "OK" /\ resp'.results.AgentId = d)]_vars

\* C19: when no registered agent meets the four admission conditions for the
\* model, RequestInference returns a Healthy agent whose score no other
\* Healthy agent exceeds, whatever their resources and model lists, and it
\* fails exactly when no registered agent is Healthy.
C19_FallbackToHealthy ==
    [][\A c \in ClientIds, m \in Models, p \in Prompts :
          (/\ RequestInference(c, m, p)
           /\ \A id \in DOMAIN agents : ~Admissible(agents[id], m))
          => IF \A id \in DOMAIN agents : agents[id].Status # StatusHealthy
             THEN resp'.code = "Unavailable"
             ELSE /\ resp'.code = "OK"
                  /\ agents[resp'.results.AgentId].Status = StatusHealthy
                  /\ \A id \in DOMAIN agents :
                        agents[id].Status = StatusHealthy
                        => ~ScoreGreater(
                              calculateMCDAScore(agents[id], perfHistory),
                              calculateMCDAScore(agents[resp'.results.AgentId],
                                                 perfHistory))]_vars

C19_Witness ==
    /\ InferenceOK
    /\ \A id \in DOMAIN agents :
          ~Admissible(agents[id],
                      DecodeClaims(resp.results.SessionToken.payload).model)
    /\ \E id \in DOMAIN agents :
          /\ agents[id].Status = StatusHealthy
          /\ ScoreGreater(calculateMCDAScore(agents[resp.results.AgentId], perfHistory),
                          calculateMCDAScore(agents[id], perfHistory))

\* C20: an inference request, gRPC or REST, with an empty client_id, model or
\* prompt is answered InvalidArgument (HTTP 400), and a well-formed one for
\* which the scheduler finds no agent is answered Unavailable (HTTP 503); in
\* both cases the token index, the pending token sweeps, the uuid source and
\* the registry are left as they were.
C20_RejectedRequestsMintNothing ==
    [][\A c \in ApiClientIds, m \in ApiModels, p \in ApiPrompts :
          /\ (RequestInference(c, m, p) /\ (c = "" \/ m = << >> \/ p = ""))
                => /\ resp'.code = "InvalidArgument"
                   /\ UNCHANGED <<agents, tokens, sweeps, uuid>>
          /\ (/\ RequestInference(c, m, p)
              /\ c # "" /\ m # << >> /\ p # ""
              /\ SelectAgent(agents, perfHistory, m) = {})
                => /\ resp'.code = "Unavailable"
                   /\ UNCHANGED <<agents, tokens, sweeps, uuid>>
          /\ (handleInferenceRequest(c, m, p) /\ (c = "" \/ m = << >> \/ p = ""))
                => /\ resp'.code = "400"
                   /\ UNCHANGED <<agents, tokens, sweeps, uuid>>
          /\ (/\ handleInferenceRequest(c, m, p)
              /\ c # "" /\ m # << >> /\ p # ""
              /\ SelectAgent(agents, perfHistory, m) = {})
                => /\ resp'.code = "503"
                   /\ UNCHANGED <<agents, tokens, sweeps, uuid>>]_vars

C20_Witness ==
    /\ resp.code = "InvalidArgument"
    /\ resp.results.Message = "prompt is required"
    /\ tokens # EmptyMap
    /\ "a1" \in DOMAIN agents
    /\ agents["a1"].Status = StatusHealthy

\* C21: when RequestInference succeeds, the agent id and the endpoint it
\* returns are those of one agent the scheduler selects in the registry of that
\* moment, and the claims of the returned session token name that agent, the
\* client of the request and the model of the request.
C21_TokenBoundToSelection ==
    [][\A c \in ClientIds, m \in Models, p \in Prompts :
          (RequestInference(c, m, p) /\ resp'.code = "OK")
          => \E a \in SelectAgent(agents, perfHistory, m) :
                /\ a = agents[a.ID]
                /\ resp'.results.AgentId = a.ID
                /\ resp'.results.AgentEndpoint = a.Endpoint
                /\ Member(resp'.results.SessionToken.payload, "agent_id", "") = a.ID
                /\ Member(resp'.results.SessionToken.payload, "client_id", "") = c
                /\ Member(resp'.results.SessionToken.payload, "model", << >>) = m]_vars

C21_Witness ==
    /\ InferenceOK
    /\ DOMAIN agents = AgentPair
    /\ agents["a1"].Endpoint # agents["a2"].Endpoint
    /\ agents["a1"].Status = StatusHealthy
    /\ resp.results.AgentId = "a2"
    /\ resp.results.AgentEndpoint = agents["a2"].Endpoint
    /\ Member(resp.results.SessionToken.payload, "agent_id", "") = "a2"

\* C22 as stated: the id of every session token in the index equals the jti
\* claim of its signed token.
C22_TokenIdIsJti ==
    \A id \in DOMAIN tokens :
        tokens[id].ID = Member(tokens[id].JWTToken.payload, "jti", 0)

\* C23 as stated: for every TOKEN_TTL setting the loader accepts, the claims
\* of every token in the index satisfy nbf = iat, exp = iat + token_ttl and
\* exp > iat.
C23_TokenWindow ==
    \A id \in DOMAIN tokens :
        LET claims == DecodeClaims(tokens[id].JWTToken.payload)
        IN  /\ claims.nbf = claims.iat
            /\ claims.exp = claims.iat + config.TokenTTL
            /\ claims.exp > claims.iat

\* C24: validating a token the coordinator minted succeeds exactly at the
\* times t with iat <= t < exp, and then returns the claims it was minted with
\* (those of the index record, and such that encoding and signing them again
\* gives the same token); a token with an altered claim, a foreign signature
\* or no signature is rejected at every time.
C24_TokenRoundTrip ==
    [][/\ \A id \in DOMAIN tokens :
             ServerValidateToken(tokens[id].JWTToken)
             => IF /\ Member(tokens[id].JWTToken.payload, "iat", ZeroTime) <= now
                   /\ now < Member(tokens[id].JWTToken.payload, "exp", ZeroTime)
                THEN /\ resp'.code = "OK"
                     /\ resp'.results.Claims.agent_id = tokens[id].AgentID
                     /\ resp'.results.Claims.client_id = tokens[id].ClientID
                     /\ resp'.results.Claims.model = tokens[id].Model
                     /\ resp'.results.Claims.iss = "titancompute-coordinator"
                     /\ resp'.results.Claims.nbf = resp'.results.Claims.iat
                     /\ resp'.results.Claims.exp
                           = resp'.results.Claims.iat + config.TokenTTL
                     /\ SignedString([alg |-> "RS256", typ |-> "JWT"],
                                     EncodeClaims(resp'.results.Claims),
                                     CoordinatorKey) = tokens[id].JWTToken
                ELSE resp'.code = "Error"
       /\ \A tokenString \in UNION {Forgeries(t) : t \in MintedTokens} :
             ServerValidateToken(tokenString) => resp'.code = "Error"]_vars

C24_Witness ==
    /\ resp.code = "OK"
    /\ "Claims" \in DOMAIN resp.results
    /\ resp.results.Claims.exp = now + 1
    /\ resp.results.Claims.agent_id = "a1"

\* C25: on a ReportHealth stream the acks sent are, in order, the acks of the
\* heartbeats received: one each, "ok" when the agent was registered at
\* arrival and "error" when it was not, the last received heartbeat lacking its
\* ack only while the handler is about to send it or after the transport
\* failed; the handler ends only on a transport failure or at the end of the
\* stream, never on an apply error; and every heartbeat received for a
\* registered agent is applied to the registry on arrival.
C25_AckPerHeartbeat ==
    /\ [](/\ Len(stream.acks) <= Len(stream.received)
          /\ Len(stream.received) <= Len(stream.acks) + 1
          /\ Len(stream.received) = Len(stream.acks) + 1
                => (stream.pc = "send" \/ (stream.pc = "done" /\ stream.broken))
          /\ \A i \in 1..Len(stream.acks) :
                /\ stream.acks[i].AgentId = stream.received[i].AgentId
                /\ stream.acks[i].Status =
                      IF stream.received[i].Registered THEN "ok" ELSE "error"
          /\ stream.pc = "done"
                => (stream.broken \/ (stream.closed /\ stream.inbox = << >>)))
    /\ [][(ReportHealthRecv /\ ~stream.broken /\ stream.inbox # << >>)
            => /\ stream'.received = Append(stream.received, Arrival)
               /\ stream'.inbox = Tail(stream.inbox)
               /\ IF Arrival.Registered
                  THEN agents' = [agents EXCEPT ![Arrival.AgentId] =
                                    [agents[Arrival.AgentId] EXCEPT
                                       !.FreeVRAMMB = Arrival.Stats.FreeVRAMMB,
                                       !.FreeRAMMB = Arrival.Stats.FreeRAMMB,
                                       !.RunningJobs = Arrival.Stats.RunningJobs,
                                       !.QueuedJobs = Arrival.Stats.QueuedJobs,
                                       !.CPUPercent = Arrival.Stats.CPUPercent,
                                       !.RTTMs = Arrival.Stats.RTTMs,
                                       !.LastHeartbeat = now,
                                       !.Status = agents'[Arrival.AgentId].Status]]
                  ELSE agents' = agents]_vars

C25_Witness ==
    /\ Len(stream.acks) = 3
    /\ stream.acks[1].Status = "ok"
    /\ stream.acks[2].Status = "error"
    /\ stream.acks[3].Status = "ok"
    /\ stream.pc = "recv"
    /\ agents["a1"].CPUPercent = stream.received[3].Stats.CPUPercent

\* C26: a step in which a caller changes the record it was given by GetAgent,
\* ListHealthyAgents or ListAllAgents leaves what the registry's reads return
\* as it was.
C26_CopiesAreDeep ==
    [][(/\ Caller \in DOMAIN threads
        /\ Caller \in DOMAIN threads'
        /\ threads'[Caller].copy # threads[Caller].copy)
         => /\ ListAllAgents(agents') = ListAllAgents(agents)
            /\ ListHealthyAgents(agents') = ListHealthyAgents(agents)
            /\ \A id \in DOMAIN agents :
                  id \in DOMAIN agents' /\ agents'[id] = agents[id]]_vars

\* C27: the estimate for a model name is 2048 when the name ends in "1B",
\* 6144 when it ends in "7B", 10240 when it ends in "13B" and 4096 for every
\* other name, whatever the length of the name.
C27_EstimateBySuffix ==
    (resp.code = "OK" /\ "EstimatedVRAMMB" \in DOMAIN resp.results)
      => LET model == resp.results.Model
             EndsWith(token) == /\ Len(model) >= Len(token)
                                /\ Suffix(model, Len(token)) = token
         IN resp.results.EstimatedVRAMMB =
              IF EndsWith(<<"1", "B">>) THEN 2048
              ELSE IF EndsWith(<<"7", "B">>) THEN 6144
              ELSE IF EndsWith(<<"1", "3", "B">>) THEN 10240
              ELSE 4096

\* C28: no state is reached in which SelectAgent, holding the read lock of the
\* scheduler, waits in calculateMCDAScore to take it again while
\* UpdatePerformanceHistory waits for the write lock.
C28_NoLockCycle ==
    ~(/\ Selector \in DOMAIN threads
      /\ threads[Selector].pc = "loop"
      /\ threads[Selector].todo # {}
      /\ ~CanRLock(mu.scheduler)
      /\ Updater \in DOMAIN threads
      /\ threads[Updater].pc = "lock"
      /\ ~CanLock(mu.scheduler, Updater))

\* C29: every record a reading function of the registry returns is, for the
\* write in progress when it is copied, the record as it was when that write
\* began or as it is when that write is complete; and what a writing function
\* leaves behind when it returns is the registry after the whole write.
C29_NoTornReads ==
    [][/\ (/\ Reader \in DOMAIN threads
           /\ Reader \notin DOMAIN threads'
           /\ Writer \in DOMAIN threads
           /\ threads[Writer].pc = "write")
            => \A rec \in resp'.results.Agents :
                  \/ /\ rec.ID \in DOMAIN threads[Writer].before
                     /\ rec = threads[Writer].before[rec.ID]
                  \/ /\ rec.ID \in DOMAIN threads[Writer].after
                     /\ rec = threads[Writer].after[rec.ID]
       /\ (/\ Writer \in DOMAIN threads
           /\ Writer \notin DOMAIN threads')
            => agents = threads[Writer].after]_vars

\* a reader returns the record a completed heartbeat left, new metrics with
\* the new status, while the next write waits for the reader before it
C29_Witness ==
    /\ resp.code = "OK"
    /\ "Agents" \in DOMAIN resp.results
    /\ \E rec \in resp.results.Agents :
          rec.CPUPercent = HbHot.CPUPercent /\ rec.Status = StatusDegraded
    /\ Writer \in DOMAIN threads
    /\ threads[Writer].pc = "lock"
    /\ Reader \in DOMAIN threads
    /\ mu.registry.readers = 1

\* C30: no two goroutines are inside an access to the session-token index at
\* the same time when at least one of the two accesses is a write.
C30_IndexAccessExclusive ==
    \A g1 \in DOMAIN threads, g2 \in DOMAIN threads :
        (g1 # g2 /\ InMap(g1) /\ InMap(g2)) => ~(MapWriter(g1) \/ MapWriter(g2))

\* C31: a record that a cleanup tick half-opened, and that has seen no failure
\* and no half-open timeout since, leaves HalfOpen for Healthy only in a step
\* after which it has received success_threshold RecordSuccess calls since it
\* was half-opened.
C31_OnlyHalfOpenProbesCount ==
    [][\A id \in DOMAIN probes :
          (/\ agents[id].Status = StatusHalfOpen
           /\ id \in DOMAIN agents'
           /\ agents'[id].Status = StatusHealthy
           /\ replaced' = "")
            => /\ id \in DOMAIN probes'
               /\ probes'[id] >= SuccessThreshold]_vars

\* C32: a RecordFailure or a RecordSuccess call on a record that is already
\* Offline leaves it Offline with the next_retry_time it had, so that the tick
\* due after that time still half-opens it.
C32_OfflineRetryTimeFixed ==
    [][\A id \in AgentIds :
          (/\ id \in DOMAIN agents
           /\ agents[id].Status = StatusOffline
           /\ (RecordFailure(id) \/ RecordSuccess(id)))
          => /\ agents'[id].Status = StatusOffline
             /\ agents'[id].NextRetryTime = agents[id].NextRetryTime]_vars

\* C32 as amended: a RecordSuccess call on an Offline record leaves it Offline
\* with the next_retry_time it had; a RecordFailure call on an Offline record
\* leaves it Offline and, when it brings failure_count to failure_threshold
\* or above, sets next_retry_time = now + recovery_timeout, else leaves
\* next_retry_time as it was; and a cleanup tick that runs after the
\* next_retry_time of an Offline record with a fresh heartbeat half-opens it.
C32_OfflineRetryTimeRearmed ==
    [][\A id \in AgentIds :
          (id \in DOMAIN agents /\ agents[id].Status = StatusOffline)
          => /\ RecordSuccess(id)
                  => /\ agents'[id].Status = StatusOffline
                     /\ agents'[id].NextRetryTime = agents[id].NextRetryTime
             /\ RecordFailure(id)
                  => /\ agents'[id].Status = StatusOffline
                     /\ agents'[id].NextRetryTime =
                          IF agents[id].FailureCount + 1 >= FailureThreshold
                          THEN now + RecoveryTimeout
                          ELSE agents[id].NextRetryTime
             /\ (/\ CleanupTick
                 /\ now - agents[id].LastHeartbeat <= HeartbeatTimeout
                 /\ now > agents[id].NextRetryTime)
                  => /\ id \in DOMAIN agents'
                     /\ agents'[id].Status = StatusHalfOpen]_vars

\* a failure on an Offline record has moved its retry time
C32_Witness ==
    /\ "a1" \in DOMAIN agents
    /\ agents["a1"].Status = StatusOffline
    /\ agents["a1"].FailureCount > FailureThreshold
    /\ agents["a1"].NextRetryTime = now + RecoveryTimeout
    /\ now > 0
    /\ resp = Reply("OK", EmptyMap)

\* C33: a cleanup tick does not move to Healthy a Degraded record whose
\* metrics, those of its latest applied heartbeat, meet the degradation
\* condition (vram_util > 0.9, cpu_percent > 90 or free_vram < 512).
C33_TickKeepsDegraded ==
    [][CleanupTick
       => \A id \in DOMAIN agents :
             (/\ agents[id].Status = StatusDegraded
              /\ (\/ VramUtilAbove(agents[id], 9)
                  \/ agents[id].CPUPercent > 90
                  \/ agents[id].FreeVRAMMB < 512)
              /\ id \in DOMAIN agents')
             => agents'[id].Status # StatusHealthy]_vars

\* C34: the cleanup tick is idempotent at a fixed clock value: run on its
\* own result at the same time, cleanupStaleAgents removes no record and
\* changes no status, counter or next_retry_time.
C34_TickIdempotent ==
    cleanupStaleAgents(cleanupStaleAgents(agents, now), now)
        = cleanupStaleAgents(agents, now)

\* a tick is due that half-opens an Offline record: its second run meets a
\* HalfOpen record whose timer the first run has just started
C34_Witness ==
    /\ now >= nextTick
    /\ \E id \in DOMAIN cleanupStaleAgents(agents, now) :
          /\ agents[id].Status = StatusOffline
          /\ cleanupStaleAgents(agents, now)[id].Status = StatusHalfOpen
          /\ cleanupStaleAgents(agents, now)[id].NextRetryTime = now + HalfOpenTimeout

\* C35: a record never goes from Offline straight to Healthy or Degraded:
\* in one step an Offline record stays Offline, becomes HalfOpen, leaves the
\* registry, or is replaced by the record of a new RegisterAgent call.
C35_OfflineLeavesThroughHalfOpen ==
    [][\A id \in DOMAIN agents :
          (/\ agents[id].Status = StatusOffline
           /\ id \in DOMAIN agents'
           /\ agents'[id].Status \notin {StatusOffline, StatusHalfOpen})
          => \E req \in Registrations : RegisterAgent(id, req)]_vars

\* a record that was Offline, was half-opened by a tick and has been closed by
\* its probes
C35_Witness ==
    \E id \in DOMAIN agents :
        /\ agents[id].Status = StatusHealthy
        /\ id \in DOMAIN probes
        /\ probes[id] >= 1
        /\ replaced = ""

\* C36: in every reachable state a record that is Healthy or Degraded has
\* failure_count < failure_threshold.
C36_ServingBelowThreshold ==
    \A id \in DOMAIN agents :
        agents[id].Status \in {StatusHealthy, StatusDegraded}
            => agents[id].FailureCount < FailureThreshold

\* a Degraded record one failure short of the threshold
C36_Witness ==
    \E id \in DOMAIN agents :
        /\ agents[id].Status = StatusDegraded
        /\ agents[id].FailureCount = FailureThreshold - 1

\* C37: the expires_at of an inference response equals the exp claim of the
\* signed token of the same response, whatever time passes between the two
\* clock reads of the minting.
C37_ExpiresAtIsExp ==
    (resp.code = "OK" /\ "SessionToken" \in DOMAIN resp.results
                      /\ "ExpiresAt" \in DOMAIN resp.results)
        => resp.results.ExpiresAt
              = DecodeClaims(resp.results.SessionToken.payload).exp

(***************************************************************************)
(* GET /api/v1/status (pkg/server/rest_handlers.go).                       *)
(***************************************************************************)

\* the goroutine serving a GET /api/v1/status request
StatusHandler == "status"

\* handleSystemStatus calls registry.ListAllAgents, which takes and releases
\* the registry's read lock
handleSystemStatusListAll ==
    /\ StatusHandler \notin DOMAIN threads
    /\ threads' = MapPut(threads, StatusHandler,
                         [pc |-> "healthy", allAgents |-> ListAllAgents(agents)])
    /\ replaced' = ""
    /\ UNCHANGED <<agents, now, nextTick, perfHistory, config, stream, mu, tokens,
                   sweeps, uuid, probes, resp>>

\* handleSystemStatus calls registry.ListHealthyAgents, under the read lock
\* taken anew, and writes the response from the lengths of the two lists
handleSystemStatusRespond ==
    /\ StatusHandler \in DOMAIN threads
    /\ threads[StatusHandler].pc = "healthy"
    /\ LET allAgents == threads[StatusHandler].allAgents
           healthyAgents == ListHealthyAgents(agents)
       IN  resp' = Reply("200", [total_agents |-> Cardinality(allAgents),
                                 healthy_agents |-> Cardinality(healthyAgents)])
    /\ threads' = MapDelete(threads, {StatusHandler})
    /\ replaced' = ""
    /\ UNCHANGED <<agents, now, nextTick, perfHistory, config, stream, mu, tokens,
                   sweeps, uuid, probes>>

\* status requests served while one agent registers, reports, fails, recovers
\* and leaves, and the cleanup ticker runs
NextStatus ==
    \/ \E id \in AgentIds : RegisterAgent(id, RegSmall)
    \/ \E id \in AgentIds : Deregister(id)
    \/ \E id \in AgentIds : UpdateHealth(id, HbHot)
    \/ \E id \in AgentIds : RecordSuccess(id)
    \/ \E id \in AgentIds : RecordFailure(id)
    \/ CleanupTick
    \/ Advance
    \/ handleSystemStatusListAll
    \/ handleSystemStatusRespond

SpecStatus == Init /\ [][NextStatus]_vars

\* C38: every response of GET /api/v1/status has
\* healthy_agents <= total_agents, whatever the registry does while the
\* handler runs.
C38_HealthyAtMostTotal ==
    "healthy_agents" \in DOMAIN resp.results
        => resp.results.healthy_agents <= resp.results.total_agents

\* C39: every token put into the session-token index is removed from it
\* after it expires, for any token_ttl, also when no inference request
\* follows.  Only cleanupExpiredTokens removes tokens and only a request
\* starts one, so: an expired token in the index has a sweep still to come.
C39_ExpiredTokenAwaitsSweep ==
    \A id \in DOMAIN tokens :
        now > tokens[id].ExpiresAt => sweeps # << >>

(***************************************************************************)
(* The parts of the MCDA score.                                            *)
(***************************************************************************)

\* the VRAMScore, LoadScore, RTTScore and PerfScore fields calculateMCDAScore
\* sets before it weighs them, each as a fraction Num/Den with Den > 0
SubScores(agent, perf) ==
    LET tm == Max(agent.TotalVRAMMB, 1)
        mm == Max(agent.MaxJobs, 1)
    IN  [VRAMScore |-> [Num |-> tm - (agent.TotalVRAMMB - agent.FreeVRAMMB),
                        Den |-> tm],
         LoadScore |-> [Num |-> mm - agent.RunningJobs, Den |-> mm],
         RTTScore |-> [Num |-> 500 - Min(agent.RTTMs, 500), Den |-> 500],
         PerfScore |-> [Num |-> IF agent.ID \in DOMAIN perf
                                THEN Min(perf[agent.ID], 100)
                                ELSE 50,
                        Den |-> 100]]

\* a heartbeat whose round trip time came out negative
HbAhead ==
    [FreeVRAMMB |-> 7000, FreeRAMMB |-> 12000, RunningJobs |-> 1,
     QueuedJobs |-> 0, CPUPercent |-> 20, RTTMs |-> 0 - 5]

\* two agents reporting heartbeats in and out of range, and inference
\* requests that make the scheduler score them
NextScore ==
    \/ \E id \in AgentPair : RegisterAgent(id, RegSmall)
    \/ \E id \in AgentPair, stats \in {HbIdle, HbOver, HbAhead} : UpdateHealth(id, stats)
    \/ \E c \in ClientIds, m \in Models, p \in Prompts : RequestInference(c, m, p)

SpecScore == Init /\ [][NextScore]_vars

\* C40: for every agent SelectAgent scores, in its first loop or in the
\* fallback, whatever its heartbeat reported, vram_score, load_score,
\* rtt_score and perf_score lie in [0, 1], and so does the weighted total.
C40_ScoresInUnitInterval ==
    \A model \in Models :
        LET listed == ListHealthyAgents(agents)
            first == Candidates(listed, perfHistory, model)
            candidates == IF first = {} THEN FallbackCandidates(listed, perfHistory)
                          ELSE first
        IN  \A c \in candidates :
                /\ \A part \in {SubScores(c.Agent, perfHistory).VRAMScore,
                                  SubScores(c.Agent, perfHistory).LoadScore,
                                  SubScores(c.Agent, perfHistory).RTTScore,
                                  SubScores(c.Agent, perfHistory).PerfScore} :
                      0 <= part.Num /\ part.Num <= part.Den
                /\ 0 <= c.Num /\ c.Num <= c.Den

====
